---- MODULE Spec2Model ----
(***************************************************************************)
(* Model of the quality-control bot of src/main.py: the FSM-driven         *)
(* workflow engine (one operator), the draft table state_storage, the      *)
(* record table control_data and the in-memory continuation tokens.        *)
(*                                                                         *)
(* Conventions.  Python None is the string None.  A key that is absent     *)
(* from the FSM data dict is modelled by the default every reader of that  *)
(* key uses (data.get(k, default)): 0 for ids and counters, FALSE for      *)
(* flags, None for names, the empty map for values/photos.  Each handler   *)
(* is one atomic action.  The draft table and the users table are          *)
(* available (their statements succeed); the INSERT into control_data may  *)
(* fail.  The operator is registered.                                      *)
(***************************************************************************)
EXTENDS Integers, Sequences, FiniteSets, TLC

None == "None"

\* ------------------------------------------------------------- bounds
MaxValues == 2      \* step keys the operator answers in one session
MaxPhotos == 2      \* images kept under one step key
MaxRecords == 1     \* rows inserted into control_data
MaxSamples == 2     \* forming sample number
MaxTokens == 1      \* continuation tokens issued since the last restart
MaxTicks == 2       \* clock ticks
MaxDeploys == 1     \* redeployments with a changed step list
MaxTextLen == 1     \* characters in a comment message
MaxDrafts == 1      \* processes the operator has a draft of at one time
MaxStages == 1      \* processes the operator works in
MaxCalls == 2       \* continue handlers suspended at one time
MaxCodes == 3       \* codes pyzbar reports in one photo

TOKEN_TTL_SECONDS == 3600

Operator == 1

\* ------------------------------------------------------------- FSM states
St_param_menu == "Process:param_menu"
St_in_progress == "Process:in_progress"
St_waiting_for_qr == "Process:waiting_for_qr"
St_forming_confirm_next == "Process:forming_confirm_next"
St_waiting_for_param_photo == "Process:waiting_for_param_photo"
St_waiting_for_param_comment == "Process:waiting_for_param_comment"

ProcessStates ==
    {St_param_menu, St_in_progress, St_waiting_for_qr, St_forming_confirm_next,
     St_waiting_for_param_photo, St_waiting_for_param_comment}

\* ------------------------------------------------------------- step chains
FloatStep(k, lo, hi) ==
    [key |-> k, type |-> "float", min |-> lo, max |-> hi, choices |-> <<>>, flags |-> {}]

ChoiceStep(k, ch, fl) ==
    [key |-> k, type |-> "choice", min |-> 0, max |-> 0, choices |-> ch, flags |-> fl]

NormDefect == <<"norm", "defect">>

PROCESS_CHAINS ==
    [forming |-> <<
        FloatStep("shell_diameter", 1, 500),
        FloatStep("weight_sample_grams", 1, 100000),
        FloatStep("stuffing_diameter", 1, 500),
        FloatStep("stuffing_length_visual", 1, 10000),
        ChoiceStep("mince_contamination_visual", NormDefect, {"photo_on_defect"}),
        ChoiceStep("hanging_quality_visual", NormDefect, {"photo_on_defect"}) >>,
     accumulation |-> <<
        FloatStep("temperature", -50, 200),
        ChoiceStep("contamination_visual", NormDefect, {"photo_on_defect"}),
        ChoiceStep("wrinkling_visual", <<"absent", "minor", "major">>, {"require_photo_always"}),
        ChoiceStep("smoking_color_calorimeter", NormDefect, {"photo_on_defect"}),
        ChoiceStep("structure_visual", NormDefect, {"photo_on_defect"}),
        ChoiceStep("porosity_visual", NormDefect, {"require_photo_always"}),
        ChoiceStep("slips_visual", NormDefect, {"photo_on_defect"}),
        ChoiceStep("print_defects_visual", <<"absent", "present">>, {"photo_on_defect"}),
        ChoiceStep("shell_adhesion_physical", NormDefect, {"photo_on_defect"}),
        ChoiceStep("organoleptics", NormDefect, {"comment_on_defect"}) >>,
     packaging |-> <<
        ChoiceStep("gas_mixture_ratio", NormDefect, {}),
        ChoiceStep("package_integrity", <<"no", "yes">>, {"photo_on_defect"}),
        FloatStep("weight_compliance_operator", 1, 100000),
        FloatStep("weight_compliance_technologist", 1, 100000) >>,
     cgp |-> <<
        ChoiceStep("cgp_inserts_visual", <<"ok", "not_ok">>, {"photo_on_defect"}) >>]

Stages == DOMAIN PROCESS_CHAINS

\* PROCESS_CHAINS.get(process_name, []) / PROCESS_CHAINS.get(process_name)
Chain(p) == IF p \in Stages THEN PROCESS_CHAINS[p] ELSE <<>>

StepKeys(p) == {Chain(p)[i].key : i \in 1..Len(Chain(p))}

\* next((step for step in chain if step['key'] == key), None): the index, 0 if none
StepIndexOf(p, k) ==
    IF k \in StepKeys(p)
    THEN CHOOSE i \in 1..Len(Chain(p)) :
            Chain(p)[i].key = k /\ \A j \in 1..(i - 1) : Chain(p)[j].key # k
    ELSE 0

Range(s) == {s[i] : i \in 1..Len(s)}

\* ------------------------------------------------------------- defect classifier
defect_values_map ==
    [mince_contamination_visual |-> {"defect"},
     hanging_quality_visual |-> {"defect"},
     contamination_visual |-> {"defect"},
     slips_visual |-> {"defect"},
     print_defects_visual |-> {"present"},
     shell_adhesion_physical |-> {"defect"},
     smoking_color_calorimeter |-> {"defect"},
     porosity_visual |-> {"defect"},
     organoleptics |-> {"defect"},
     structure_visual |-> {"defect"},
     package_integrity |-> {"yes"},
     gas_mixture_ratio |-> {"defect"},
     cgp_inserts_visual |-> {"not_ok"},
     wrinkling_visual |-> {}]

is_choice_defect(step_key, value) ==
    /\ step_key \in DOMAIN defect_values_map
    /\ value \in defect_values_map[step_key]

\* ------------------------------------------------------------- maps and texts
EmptyMap == [k \in {} |-> None]

Put(m, k, v) == [x \in (DOMAIN m) \cup {k} |-> IF x = k THEN v ELSE m[x]]

Pop(m, k) == [x \in (DOMAIN m) \ {k} |-> m[x]]

\* f"{key}_comment"
CommentKeys ==
    [organoleptics |-> "organoleptics_comment"]

CommentKey(k) == IF k \in DOMAIN CommentKeys THEN CommentKeys[k] ELSE "None_comment"

\* message texts are sequences of characters; str.strip()
RECURSIVE LStrip(_)
LStrip(t) == IF t # <<>> /\ Head(t) = " " THEN LStrip(Tail(t)) ELSE t

RECURSIVE RStrip(_)
RStrip(t) == IF t # <<>> /\ t[Len(t)] = " " THEN RStrip(SubSeq(t, 1, Len(t) - 1)) ELSE t

Strip(t) == RStrip(LStrip(t))

Chars == {" ", "x"}

\* the non-empty texts a message can carry (F.text / message.text is truthy)
Texts == UNION {[1..n -> Chars] : n \in 1..MaxTextLen}

\* float(user_input.replace(',', '.')) on the numeric texts the operator types;
\* <<>> is the ValueError
FloatTexts == {"abc", "0", "1", "500", "501", "nan"}

\* float("nan"): a float that is neither below nor above any number; the
\* integer that stands for it is no reading of any step
NaN == -1000000

\* float(user_input.replace(',', '.')): <<>> when it raises
ParseFloat(t) ==
    CASE t = "0" -> <<0>>
      [] t = "1" -> <<1>>
      [] t = "500" -> <<500>>
      [] t = "501" -> <<501>>
      [] t = "nan" -> <<NaN>>
      [] OTHER -> <<>>

\* a < b on floats
Less(a, b) == a # NaN /\ b # NaN /\ a < b

\* ------------------------------------------------------------- rendered messages
\* last_bot_message_id names a message; the model keeps what that message shows,
\* which decides the buttons a callback from it can carry.
NoMsg == [kind |-> "none", proc |-> None, arg |-> 0]
MenuMsg(p) == [kind |-> "menu", proc |-> p, arg |-> 0]
QuestionMsg(p, i) == [kind |-> "question", proc |-> p, arg |-> i]
StageMsg(p, a) == [kind |-> "stage", proc |-> p, arg |-> a]
PromptMsg == [kind |-> "prompt", proc |-> None, arg |-> 0]
ConfirmMsg == [kind |-> "confirm", proc |-> None, arg |-> 0]

\* ------------------------------------------------------------- state
VARIABLES
    fsm,                  \* FSMContext state of the operator (None or a state name)
    data,                 \* FSMContext data of the operator
    state_storage,        \* table state_storage: process_name -> row, for the operator
    control_data,         \* table control_data: the rows inserted, oldest first
    forming_open,         \* forming_sessions has a row of the operator with completed_at NULL
    ACCUM_CONTINUE_TOKENS,\* token -> [user_id, goods, tare, created_at]
    issued,               \* the stage of every token generated so far, by token
    now,                  \* datetime.now(), in seconds
    schema_version,       \* the deployed revision of PROCESS_CHAINS
    reply,                \* what the last handler told the operator
    selected,             \* the processes the operator has had a session in
    calls,                \* the handlers suspended at an await, oldest first
    visitor,              \* FSMContext state and data of a user other than the operator
    earlier,              \* the number of control_data rows found at startup
    scanned               \* the photo of the last Scan and what the decoder returned

vars == <<fsm, data, state_storage, control_data, forming_open,
          ACCUM_CONTINUE_TOKENS, issued, now, schema_version, reply, selected,
          calls, visitor, earlier, scanned>>

EmptyData ==
    [user_id |-> 0,
     process_name |-> None,
     step_index |-> 0,
     sample_number |-> 0,
     values |-> EmptyMap,
     photos |-> EmptyMap,
     pending_photo_required |-> FALSE,
     pending_photo_param_key |-> None,
     pending_comment_required |-> FALSE,
     pending_comment_param_key |-> None,
     process_name_after_qr |-> None,
     last_bot_message_id |-> NoMsg,
     forming_session_id |-> 0,
     accumulation_qr_goods |-> None,
     accumulation_qr_tare |-> None,
     cgp_qr_goods |-> None,
     cgp_qr_tare |-> None]

\* state.update_data(**upd) on the dict d
update_data(d, upd) == [k \in DOMAIN d |-> IF k \in DOMAIN upd THEN upd[k] ELSE d[k]]

\* reply keeps the outcome of a finish attempt, the reason of a rejected text and
\* the alert of a refused token; every other answer is NoReply
Reply(text, key) == [text |-> text, key |-> key]

NoReply == Reply("none", None)

\* no photo has been decoded yet
NotScanned == [photo |-> <<>>, raises |-> FALSE, results |-> <<>>]

\* a user the bot has not talked to
NoSession == [fsm |-> None, data |-> EmptyData]

Init ==
    /\ fsm = None
    /\ data = EmptyData
    /\ state_storage = EmptyMap
    /\ control_data = <<>>
    /\ forming_open = FALSE
    /\ ACCUM_CONTINUE_TOKENS = EmptyMap
    /\ issued = <<>>
    /\ now = 0
    /\ schema_version = 1
    /\ reply = NoReply
    /\ selected = {}
    /\ calls = <<>>
    /\ visitor = NoSession
    /\ earlier = 0
    /\ scanned = NotScanned

\* ------------------------------------------------------------- drafts
\* json.dumps(data): None -> null, True/False -> true/false, the rest as it is
JsonName(s) == IF s = None THEN "null" ELSE s
JsonBool(b) == IF b THEN "true" ELSE "false"

json_dumps(d, fsm_state) ==
    [user_id |-> d.user_id,
     process_name |-> JsonName(d.process_name),
     step_index |-> d.step_index,
     sample_number |-> d.sample_number,
     values |-> d.values,
     photos |-> d.photos,
     pending_photo_required |-> JsonBool(d.pending_photo_required),
     pending_photo_param_key |-> JsonName(d.pending_photo_param_key),
     pending_comment_required |-> JsonBool(d.pending_comment_required),
     pending_comment_param_key |-> JsonName(d.pending_comment_param_key),
     process_name_after_qr |-> JsonName(d.process_name_after_qr),
     last_bot_message_id |-> d.last_bot_message_id,
     forming_session_id |-> d.forming_session_id,
     accumulation_qr_goods |-> JsonName(d.accumulation_qr_goods),
     accumulation_qr_tare |-> JsonName(d.accumulation_qr_tare),
     cgp_qr_goods |-> JsonName(d.cgp_qr_goods),
     cgp_qr_tare |-> JsonName(d.cgp_qr_tare),
     fsm_state |-> JsonName(fsm_state)]

PyName(s) == IF s = "null" THEN None ELSE s
PyBool(s) == s = "true"

\* json.loads(raw) without the fsm_state key
json_loads(j) ==
    [user_id |-> j.user_id,
     process_name |-> PyName(j.process_name),
     step_index |-> j.step_index,
     sample_number |-> j.sample_number,
     values |-> j.values,
     photos |-> j.photos,
     pending_photo_required |-> PyBool(j.pending_photo_required),
     pending_photo_param_key |-> PyName(j.pending_photo_param_key),
     pending_comment_required |-> PyBool(j.pending_comment_required),
     pending_comment_param_key |-> PyName(j.pending_comment_param_key),
     process_name_after_qr |-> PyName(j.process_name_after_qr),
     last_bot_message_id |-> j.last_bot_message_id,
     forming_session_id |-> j.forming_session_id,
     accumulation_qr_goods |-> PyName(j.accumulation_qr_goods),
     accumulation_qr_tare |-> PyName(j.accumulation_qr_tare),
     cgp_qr_goods |-> PyName(j.cgp_qr_goods),
     cgp_qr_tare |-> PyName(j.cgp_qr_tare)]

\* data.get('fsm_state') of the loaded dict
json_fsm_state(j) == PyName(j.fsm_state)

save_state_to_db_Never(store, st, d) == store

save_state_to_db_Always(store, st, d) ==
    Put(store, d.process_name, [state_data |-> json_dumps(d, st), written_by |-> schema_version])

\* save_state_to_db: the table after saving the session (st, d).  The row carries
\* the revision of PROCESS_CHAINS that was deployed when it was written.
save_state_to_db(store, st, d) ==
    IF st = None \/ st \notin ProcessStates THEN store
    ELSE IF d.process_name = None THEN store
    ELSE Put(store, d.process_name,
             [state_data |-> json_dumps(d, st), written_by |-> schema_version])

\* clear_state_for_process
clear_state_for_process_Kept(store, p) == store

clear_state_for_process(store, p) == Pop(store, p)

\* load_state_from_db: TRUE iff a row for the process exists
load_found(store, p) == p \in DOMAIN store

\* a state_data that json.loads rejects
Unreadable == [garbled |-> TRUE]

\* load_state_from_db returns True: the row exists and json.loads accepts it
load_ok(store, p) == load_found(store, p) /\ "garbled" \notin DOMAIN store[p].state_data

\* the table after load_state_from_db: the except branch deletes the row
load_store_Kept(store, p) == store

load_store(store, p) ==
    IF load_found(store, p) /\ ~load_ok(store, p) THEN clear_state_for_process(store, p)
    ELSE store

load_data(store, p) == json_loads(store[p].state_data)

\* state.set_state(fsm_state_str or Process.param_menu)
load_state(store, p) ==
    IF json_fsm_state(store[p].state_data) = None THEN St_param_menu
    ELSE json_fsm_state(store[p].state_data)

\* ------------------------------------------------------------- callbacks
\* A callback query comes from the message last_bot_message_id names (src = "last":
\* its payload is one of that message's buttons) or from another message of the
\* chat (src = "old": any button ever rendered).
Sources == {"last", "old"}

\* if last_id and callback.message.message_id != last_id: return
Stale_Never(d, src) == FALSE

Stale(d, src) == d.last_bot_message_id # NoMsg /\ src = "old"

\* src = "last" needs a last message, showing one of the kinds that carry the button
FromMessage(src, kinds) ==
    src = "last" => data.last_bot_message_id.kind \in kinds

\* ------------------------------------------------------------- finish_process
HasPhoto(d, k) == k \in DOMAIN d.photos

\* the checks of one collected key; "" when the key passes
requirement_error_NoDefectPhoto(d, p, k) ==
    IF StepIndexOf(p, k) = 0 THEN ""
    ELSE LET step == Chain(p)[StepIndexOf(p, k)]
         IN  IF "require_photo_always" \in step.flags /\ ~HasPhoto(d, k)
             THEN "photo_required"
             ELSE IF "comment_on_defect" \in step.flags /\ is_choice_defect(k, d.values[k])
                     /\ (CommentKey(k) \notin DOMAIN d.values \/ d.values[CommentKey(k)] = <<>>)
             THEN "defect_comment_required"
             ELSE ""

requirement_error(d, p, k) ==
    IF StepIndexOf(p, k) = 0 THEN ""
    ELSE LET step == Chain(p)[StepIndexOf(p, k)]
         IN  IF "require_photo_always" \in step.flags /\ ~HasPhoto(d, k)
             THEN "photo_required"
             ELSE IF "photo_on_defect" \in step.flags /\ is_choice_defect(k, d.values[k])
                     /\ ~HasPhoto(d, k)
             THEN "defect_photo_required"
             ELSE IF "comment_on_defect" \in step.flags /\ is_choice_defect(k, d.values[k])
                     /\ (CommentKey(k) \notin DOMAIN d.values \/ d.values[CommentKey(k)] = <<>>)
             THEN "defect_comment_required"
             ELSE ""

\* the collected keys the loop over values.items() can stop at
unmet_keys(d) == {k \in DOMAIN d.values : requirement_error(d, d.process_name, k) # ""}

\* value_numeric: the first float step of the chain with a collected value (<<>> is None)
value_numeric(d) ==
    LET ch == Chain(d.process_name)
        fl == {i \in 1..Len(ch) : ch[i].type = "float" /\ ch[i].key \in DOMAIN d.values}
    IN  IF fl = {} THEN <<>>
        ELSE <<d.values[ch[CHOOSE i \in fl : \A j \in fl : i <= j].key]>>

\* the row handed to INSERT INTO control_data
record_of(d) ==
    [user_id |-> d.user_id,
     stage_name |-> d.process_name,
     forming_session_id |-> d.forming_session_id,
     value_numeric |-> value_numeric(d),
     values |-> d.values,
     sample_number |-> IF d.process_name = "forming"
                       THEN (IF d.sample_number = 0 THEN 1 ELSE d.sample_number)
                       ELSE 0,
     photos |-> d.photos,
     qr_tare |-> IF d.process_name = "accumulation" THEN d.accumulation_qr_tare
                 ELSE IF d.process_name = "cgp" THEN d.cgp_qr_tare ELSE None,
     qr_goods |-> IF d.process_name = "accumulation" THEN d.accumulation_qr_goods
                  ELSE IF d.process_name = "cgp" THEN d.cgp_qr_goods ELSE None]

\* state.clear() after a failed INSERT
finish_failed_state(st, d) == None

finish_failed_data(st, d) == EmptyData

\* the checks before anything is written: param_menu_done makes them for the
\* button and finish_process repeats them; "" when they pass
finish_guard_NoPending(d) ==
    IF DOMAIN d.values = {} THEN "no_values" ELSE ""

finish_guard_NoValues(d) ==
    IF d.pending_photo_required THEN "pending_photo"
    ELSE IF d.pending_comment_required THEN "pending_comment"
    ELSE ""

finish_guard(d) ==
    IF d.pending_photo_required THEN "pending_photo"
    ELSE IF d.pending_comment_required THEN "pending_comment"
    ELSE IF DOMAIN d.values = {} THEN "no_values"
    ELSE ""

\* finish_process(message, state) entered with FSM state st, data d and table
\* store; ok is the outcome of the INSERT.  The dict's iteration order is not
\* kept: the key the loop stops at is any collected key with an unmet requirement.
finish_process(st, d, store, ok) ==
    IF finish_guard(d) # "" THEN
        /\ fsm' = st /\ data' = d /\ state_storage' = store
        /\ reply' = Reply(finish_guard(d), None)
        /\ UNCHANGED control_data
    ELSE IF d.user_id = 0 THEN
        /\ fsm' = None /\ data' = EmptyData
        /\ state_storage' = IF d.process_name # None
                            THEN clear_state_for_process(store, d.process_name) ELSE store
        /\ reply' = Reply("no_user_id", None)
        /\ UNCHANGED control_data
    ELSE IF unmet_keys(d) # {} THEN
        /\ fsm' = st /\ data' = d /\ state_storage' = store
        /\ \E k \in unmet_keys(d) : reply' = Reply(requirement_error(d, d.process_name, k), k)
        /\ UNCHANGED control_data
    ELSE IF ~ok THEN
        /\ fsm' = finish_failed_state(st, d)
        /\ data' = finish_failed_data(st, d)
        /\ state_storage' = store
        /\ reply' = Reply("insert_failed", None)
        /\ UNCHANGED control_data
    ELSE
        /\ Len(control_data) < earlier + MaxRecords
        /\ control_data' = Append(control_data, record_of(d))
        /\ IF d.process_name = "forming"
           THEN /\ fsm' = St_forming_confirm_next
                /\ data' = update_data(d, [last_bot_message_id |-> ConfirmMsg])
                /\ state_storage' =
                       save_state_to_db(clear_state_for_process(store, d.process_name),
                                        St_forming_confirm_next,
                                        update_data(d, [last_bot_message_id |-> ConfirmMsg]))
                /\ reply' = Reply("saved_sample", None)
           ELSE /\ fsm' = None
                /\ data' = EmptyData
                /\ state_storage' = clear_state_for_process(store, d.process_name)
                /\ reply' = Reply("saved", None)

\* param_menu_done: the "param_done" button, in Process.param_menu
param_menu_done(src, ok) ==
    /\ fsm = St_param_menu
    /\ FromMessage(src, {"menu"})
    /\ IF Stale(data, src) THEN
          /\ reply' = NoReply
          /\ UNCHANGED <<fsm, data, state_storage, control_data>>
       ELSE IF finish_guard(data) # "" THEN
          /\ reply' = Reply(finish_guard(data), None)
          /\ UNCHANGED <<fsm, data, state_storage, control_data>>
       ELSE finish_process(fsm, data, state_storage, ok)
    /\ UNCHANGED <<forming_open, ACCUM_CONTINUE_TOKENS, issued, now, schema_version>>

\* ------------------------------------------------------------- the operator's inputs
\* the steps the operator opens (the menus offer every step of the chain)
OperatorKeys ==
    [forming |-> {"shell_diameter", "mince_contamination_visual"},
     accumulation |-> {"contamination_visual", "organoleptics"},
     packaging |-> {"gas_mixture_ratio"},
     cgp |-> {"cgp_inserts_visual"}]

AllStepKeys == UNION {StepKeys(p) : p \in Stages}

\* the operator answers at most MaxValues steps per session
MayOpen(d, k) ==
    k \in DOMAIN d.values \/ Cardinality((DOMAIN d.values) \cap AllStepKeys) < MaxValues

AllChoiceValues ==
    UNION {UNION {Range(Chain(p)[i].choices) : i \in 1..Len(Chain(p))} : p \in Stages}

\* callback data that matches r'^(forming|accumulation|packaging|cgp)_\d+:.+' with
\* a value that is on no keyboard: the client chooses the data it sends
ForeignValue == "other"

CallbackValues == AllChoiceValues \cup {ForeignValue}

\* ------------------------------------------------------------- menus and questions
\* show_param_menu: the menu of data's process becomes the last message
show_param_menu(d) == update_data(d, [last_bot_message_id |-> MenuMsg(d.process_name)])

\* start_process: process_name in PROCESS_CHAINS
known_process_Any(p) == TRUE

known_process(p) == p \in DOMAIN PROCESS_CHAINS

\* start_process: state.set_data(...) replaces the dict
start_process_data(p) ==
    show_param_menu(update_data(EmptyData,
        [user_id |-> Operator, process_name |-> p, step_index |-> 0, sample_number |-> 1]))

\* ask_current_question(message, state) entered with state st, data d, table store
ask_current_question(st, d, store, ok) ==
    IF Chain(d.process_name) = <<>> THEN
        /\ fsm' = None /\ data' = EmptyData
        /\ state_storage' = IF d.process_name # None
                            THEN clear_state_for_process(store, d.process_name) ELSE store
        /\ reply' = NoReply
        /\ UNCHANGED control_data
    ELSE IF d.step_index >= Len(Chain(d.process_name)) THEN
        finish_process(st, d, store, ok)
    ELSE IF d.process_name = "forming" /\ d.sample_number = 0 THEN
        \* prompt.format(**data) raises KeyError: the handler stops here
        /\ fsm' = st /\ data' = d /\ state_storage' = store
        /\ reply' = NoReply
        /\ UNCHANGED control_data
    ELSE
        /\ fsm' = st
        /\ data' = update_data(d, [last_bot_message_id |-> QuestionMsg(d.process_name, d.step_index)])
        /\ state_storage' = store
        /\ reply' = NoReply
        /\ UNCHANGED control_data

\* callback data "param_open:<process>:<key>" with a key of no chain
ForeignKey == "unknown_key"

\* callback data that name a process and one of its keys, sent from the menu of
\* any process: the client chooses the data it sends
ForeignOpen == <<"cgp", "cgp_inserts_visual">>

\* param_open_handler: the "param_open:<process>:<key>" button, in Process.param_menu;
\* the process and the key are the ones the callback data name
param_open_handler(src, p, key, ok) ==
    /\ fsm = St_param_menu
    /\ FromMessage(src, {"menu"})
    /\ src = "last" => p = data.last_bot_message_id.proc \/ <<p, key>> = ForeignOpen
    /\ MayOpen(data, key)
    /\ IF Stale(data, src) \/ key \notin StepKeys(p) THEN
          /\ reply' = NoReply
          /\ UNCHANGED <<fsm, data, state_storage, control_data>>
       ELSE
          LET d1 == IF p = "forming"
                    THEN update_data(data, [sample_number |->
                              IF data.sample_number = 0 THEN 1 ELSE data.sample_number])
                    ELSE data
              d2 == update_data(d1, [step_index |-> StepIndexOf(p, key) - 1])
          IN  ask_current_question(St_in_progress, d2,
                                   save_state_to_db(state_storage, St_in_progress, d2), ok)
    /\ UNCHANGED <<forming_open, ACCUM_CONTINUE_TOKENS, issued, now, schema_version>>

\* the photo requirement of a stored answer
need_photo(step, value) ==
    \/ "require_photo_always" \in step.flags
    \/ ("photo_on_defect" \in step.flags /\ is_choice_defect(step.key, value))

need_comment(step, value) ==
    "comment_on_defect" \in step.flags /\ is_choice_defect(step.key, value)

current_step_First(d) ==
    LET ch == Chain(d.process_name)
        choice(i) == ch[i].type = "choice"
    IN  IF choice(d.step_index + 1)
        THEN ch[CHOOSE i \in 1..Len(ch) : choice(i) /\ \A j \in 1..(i - 1) : ~choice(j)]
        ELSE ch[d.step_index + 1]

\* chain[step_index] of the session's own process
current_step(d) == Chain(d.process_name)[d.step_index + 1]

\* process_choice_answer: a "<process>_<index>:<value>" button, in Process.in_progress
process_choice_answer(src, val) ==
    /\ fsm = St_in_progress
    /\ FromMessage(src, {"question"})
    /\ src = "last" =>
          LET m == data.last_bot_message_id
          IN  /\ m.arg < Len(Chain(m.proc))
              /\ val \in Range(Chain(m.proc)[m.arg + 1].choices) \cup {ForeignValue}
    /\ src = "old" => val \in CallbackValues
    /\ IF Stale(data, src) THEN
          /\ reply' = NoReply
          /\ UNCHANGED <<fsm, data, state_storage>>
       ELSE IF \/ Chain(data.process_name) = <<>>
               \/ data.step_index >= Len(Chain(data.process_name))
               \/ Chain(data.process_name)[data.step_index + 1].type # "choice" THEN
          /\ reply' = NoReply
          /\ UNCHANGED <<fsm, data, state_storage>>
       ELSE
          LET step == current_step(data)
              current_values == Put(data.values, step.key, val)
          IN  IF need_photo(step, val) THEN
                 LET d1 == update_data(data, [values |-> current_values,
                                              pending_photo_param_key |-> step.key,
                                              pending_photo_required |-> TRUE])
                 IN  /\ fsm' = St_waiting_for_param_photo
                     /\ state_storage' = save_state_to_db(state_storage, St_waiting_for_param_photo, d1)
                     /\ data' = update_data(d1, [last_bot_message_id |-> PromptMsg])
                     /\ reply' = NoReply
              ELSE IF need_comment(step, val) THEN
                 LET d1 == update_data(data, [values |-> current_values,
                                              pending_comment_param_key |-> step.key,
                                              pending_comment_required |-> TRUE])
                 IN  /\ fsm' = St_waiting_for_param_comment
                     /\ state_storage' = save_state_to_db(state_storage, St_waiting_for_param_comment, d1)
                     /\ data' = update_data(d1, [last_bot_message_id |-> PromptMsg])
                     /\ reply' = NoReply
              ELSE
                 LET d1 == update_data(data, [values |-> current_values,
                                              pending_photo_required |-> FALSE])
                 IN  /\ state_storage' = save_state_to_db(state_storage, fsm, d1)
                     /\ fsm' = St_param_menu
                     /\ data' = show_param_menu(d1)
                     /\ reply' = NoReply
    /\ UNCHANGED <<control_data, forming_open, ACCUM_CONTINUE_TOKENS, issued, now, schema_version>>

\* validate_input for a float step
validate_input_AcceptAll(value, step) == TRUE

validate_input(value, step) ==
    IF step.type = "float"
    THEN ~Less(value, step.min) /\ ~Less(step.max, value)
    ELSE TRUE

\* process_step_answer: a text message, in Process.in_progress
process_step_answer(text) ==
    /\ fsm = St_in_progress
    /\ IF data.process_name = None THEN
          /\ fsm' = None /\ data' = EmptyData
          /\ reply' = NoReply
          /\ UNCHANGED state_storage
       ELSE IF \/ Chain(data.process_name) = <<>>
               \/ ~(0 <= data.step_index /\ data.step_index < Len(Chain(data.process_name))) THEN
          /\ fsm' = None /\ data' = EmptyData
          /\ state_storage' = clear_state_for_process(state_storage, data.process_name)
          /\ reply' = NoReply
       ELSE
          LET step == current_step(data)
          IN  IF step.type = "choice" THEN
                 /\ reply' = Reply("use_buttons", step.key)
                 /\ UNCHANGED <<fsm, data, state_storage>>
              ELSE IF ParseFloat(text) = <<>> THEN
                 /\ reply' = Reply("bad_format", step.key)
                 /\ UNCHANGED <<fsm, data, state_storage>>
              ELSE IF ~validate_input(ParseFloat(text)[1], step) THEN
                 /\ reply' = Reply("out_of_bounds", step.key)
                 /\ UNCHANGED <<fsm, data, state_storage>>
              ELSE
                 LET current_values == Put(data.values, step.key, ParseFloat(text)[1])
                 IN  IF "require_photo_always" \in step.flags THEN
                        LET d1 == update_data(data, [values |-> current_values,
                                                     pending_photo_param_key |-> step.key,
                                                     pending_photo_required |-> TRUE])
                        IN  /\ fsm' = St_waiting_for_param_photo
                            /\ state_storage' = save_state_to_db(state_storage, St_waiting_for_param_photo, d1)
                            /\ data' = update_data(d1, [last_bot_message_id |-> PromptMsg])
                            /\ reply' = NoReply
                     ELSE
                        LET d1 == update_data(data, [values |-> current_values])
                        IN  /\ state_storage' = save_state_to_db(state_storage, fsm, d1)
                            /\ fsm' = St_param_menu
                            /\ data' = show_param_menu(d1)
                            /\ reply' = NoReply
    /\ UNCHANGED <<control_data, forming_open, ACCUM_CONTINUE_TOKENS, issued, now, schema_version>>

append_photo_Replace(photos, k) == Put(photos, k, <<1>>)

\* photos.setdefault(param_key, []).append(dest_path); an image is named by its
\* position under the key
append_photo(photos, k) ==
    LET old == IF k \in DOMAIN photos THEN photos[k] ELSE <<>>
    IN  Put(photos, k, Append(old, Len(old) + 1))

\* handle_param_photo: a photo, in Process.waiting_for_param_photo; ok is the download
handle_param_photo(ok) ==
    /\ fsm = St_waiting_for_param_photo
    /\ IF data.pending_photo_param_key = None THEN
          \* os.path.join(..., None) raises TypeError
          /\ reply' = NoReply
          /\ UNCHANGED <<fsm, data, state_storage>>
       ELSE IF ~ok THEN
          /\ reply' = NoReply
          /\ UNCHANGED <<fsm, data, state_storage>>
       ELSE
          LET k == data.pending_photo_param_key
              old == IF k \in DOMAIN data.photos THEN data.photos[k] ELSE <<>>
              d1 == update_data(data, [photos |-> append_photo(data.photos, k),
                                       pending_photo_required |-> FALSE])
          IN  /\ Len(old) < MaxPhotos
              /\ fsm' = St_param_menu
              /\ state_storage' = save_state_to_db(state_storage, St_param_menu, d1)
              /\ data' = show_param_menu(d1)
              /\ reply' = NoReply
    /\ UNCHANGED <<control_data, forming_open, ACCUM_CONTINUE_TOKENS, issued, now, schema_version>>

comment_values_Overwrite(values, param_key, text) == Put(values, param_key, Strip(text))

\* values[f"{param_key}_comment"] = message.text.strip()
comment_values(values, param_key, text) == Put(values, CommentKey(param_key), Strip(text))

\* handle_param_comment: a text message, in Process.waiting_for_param_comment
handle_param_comment(text) ==
    /\ fsm = St_waiting_for_param_comment
    /\ LET d1 == update_data(data,
                     [values |-> comment_values(data.values, data.pending_comment_param_key, text),
                      pending_comment_required |-> FALSE])
       IN  /\ fsm' = St_param_menu
           /\ state_storage' = save_state_to_db(state_storage, St_param_menu, d1)
           /\ data' = show_param_menu(d1)
           /\ reply' = NoReply
    /\ UNCHANGED <<control_data, forming_open, ACCUM_CONTINUE_TOKENS, issued, now, schema_version>>

\* ------------------------------------------------------------- main menu, cancel
\* process_cancel_callback: the "cancel_action" button, in any state
cancel_state(st, d) ==
    IF st = St_waiting_for_param_photo /\ d.pending_photo_required
          /\ d.pending_photo_param_key # None
    THEN St_param_menu
    ELSE IF st = St_waiting_for_param_comment /\ d.pending_comment_required
          /\ d.pending_comment_param_key # None
    THEN St_param_menu
    ELSE st

cancel_data_Wipe(st, d) ==
    IF st \in {St_waiting_for_param_photo, St_waiting_for_param_comment}
    THEN update_data(d, [values |-> EmptyMap, photos |-> EmptyMap,
                         pending_photo_required |-> FALSE, pending_photo_param_key |-> None,
                         pending_comment_required |-> FALSE, pending_comment_param_key |-> None])
    ELSE d

cancel_data(st, d) ==
    IF st = St_waiting_for_param_photo /\ d.pending_photo_required
          /\ d.pending_photo_param_key # None
    THEN update_data(d, [values |-> Pop(d.values, d.pending_photo_param_key),
                         photos |-> Pop(d.photos, d.pending_photo_param_key),
                         pending_photo_required |-> FALSE,
                         pending_photo_param_key |-> None])
    ELSE IF st = St_waiting_for_param_comment /\ d.pending_comment_required
          /\ d.pending_comment_param_key # None
    THEN update_data(d, [values |-> Pop(d.values, d.pending_comment_param_key),
                         pending_comment_required |-> FALSE,
                         pending_comment_param_key |-> None])
    ELSE d

\* what cancel does to the draft table once the session is (st, d)
cancel_store_Unsaved(store, st, d) == store

cancel_store(store, st, d) == save_state_to_db(store, st, d)

process_cancel_callback ==
    /\ fsm' = cancel_state(fsm, data)
    /\ data' = cancel_data(fsm, data)
    /\ state_storage' = cancel_store(state_storage, cancel_state(fsm, data), cancel_data(fsm, data))
    /\ reply' = NoReply
    /\ UNCHANGED <<control_data, forming_open, ACCUM_CONTINUE_TOKENS, issued, now, schema_version>>

\* cmd_start: /start, in any state
cmd_start ==
    /\ state_storage' = IF fsm # None THEN save_state_to_db(state_storage, fsm, data)
                        ELSE state_storage
    /\ reply' = NoReply
    /\ UNCHANGED <<fsm, data, control_data, forming_open, ACCUM_CONTINUE_TOKENS, issued, now,
                   schema_version>>

\* ------------------------------------------------------------- tokens
Expired_Never(tok, t) == FALSE

Expired(tok, t) == t - tok.created_at > TOKEN_TTL_SECONDS

\* _cleanup_expired_tokens
cleanup_expired_tokens(toks, t) ==
    [k \in {x \in DOMAIN toks : ~Expired(toks[x], t)} |-> toks[k]]

\* the latest control_data row of the operator for a stage; 0 if none
LastRowIndex(stage) ==
    LET rows == {i \in 1..Len(control_data) :
                    control_data[i].stage_name = stage /\ control_data[i].user_id = Operator}
    IN  IF rows = {} THEN 0 ELSE CHOOSE i \in rows : \A j \in rows : j <= i

\* ------------------------------------------------------------- process_stage_selection
\* the resumed session after load_state_from_db returned True
resume_state(store, p) ==
    IF load_state(store, p) \in {St_waiting_for_param_photo, St_waiting_for_param_comment}
    THEN load_state(store, p)
    ELSE St_param_menu

resume_data(store, p) ==
    IF load_state(store, p) \in {St_waiting_for_param_photo, St_waiting_for_param_comment}
    THEN update_data(load_data(store, p), [last_bot_message_id |-> PromptMsg])
    ELSE show_param_menu(load_data(store, p))

\* callback.data.split("_")[1] of the data that start with "stage_": a process of
\* the main menu or any other name
StageNames == Stages \cup {"unknown"}

\* the "stage_<name>" buttons of the main menu, in any state
process_stage_selection(stage_name) ==
    /\ stage_name \in StageNames
    /\ state_storage' = load_store(state_storage, stage_name)
    /\ UNCHANGED <<control_data, forming_open, now, schema_version>>
    /\ IF load_ok(state_storage, stage_name) THEN
          /\ fsm' = resume_state(state_storage, stage_name)
          /\ data' = resume_data(state_storage, stage_name)
          /\ reply' = NoReply
          /\ UNCHANGED <<ACCUM_CONTINUE_TOKENS, issued>>
       ELSE
          LET toks == cleanup_expired_tokens(ACCUM_CONTINUE_TOKENS, now)
              row == LastRowIndex(stage_name)
              token == Len(issued) + 1
              to_qr == /\ fsm' = St_waiting_for_qr
                       /\ data' = update_data(data, [process_name_after_qr |-> stage_name])
                       /\ ACCUM_CONTINUE_TOKENS' = toks
                       /\ reply' = NoReply
                       /\ UNCHANGED issued
              offer(goods, tare) ==
                       /\ Len(issued) < MaxTokens
                       /\ issued' = Append(issued, stage_name)
                       /\ ACCUM_CONTINUE_TOKENS' =
                              Put(toks, token, [user_id |-> Operator, goods |-> goods,
                                                tare |-> tare, created_at |-> now])
                       /\ data' = update_data(data, [last_bot_message_id |-> StageMsg(stage_name, token)])
                       /\ reply' = NoReply
                       /\ UNCHANGED fsm
          IN  CASE stage_name = "forming" ->
                     IF forming_open THEN
                        /\ data' = update_data(data, [last_bot_message_id |-> StageMsg("forming", 1)])
                        /\ ACCUM_CONTINUE_TOKENS' = toks
                        /\ reply' = NoReply
                        /\ UNCHANGED <<fsm, issued>>
                     ELSE to_qr
                [] stage_name = "accumulation" ->
                     IF row # 0
                     THEN offer(control_data[row].qr_goods, control_data[row].qr_tare)
                     ELSE to_qr
                [] stage_name = "cgp" ->
                     IF row # 0 /\ control_data[row].qr_goods # None
                     THEN offer(control_data[row].qr_goods, control_data[row].qr_tare)
                     ELSE to_qr
                [] OTHER ->
                     /\ fsm' = IF known_process(stage_name) THEN St_param_menu ELSE fsm
                     /\ data' = IF known_process(stage_name)
                                THEN start_process_data(stage_name)
                                ELSE data
                     /\ ACCUM_CONTINUE_TOKENS' = toks
                     /\ reply' = NoReply
                     /\ UNCHANGED issued

\* accumulation_new_handler / forming_new_handler / cgp_new_handler
new_handler(src, p) ==
    /\ FromMessage(src, {"stage"})
    /\ src = "last" => data.last_bot_message_id.proc = p
    /\ IF Stale(data, src) THEN
          /\ reply' = NoReply
          /\ UNCHANGED <<fsm, data>>
       ELSE
          /\ fsm' = St_waiting_for_qr
          /\ data' = update_data(data, [process_name_after_qr |-> p])
          /\ reply' = NoReply
    /\ UNCHANGED <<state_storage, control_data, forming_open, ACCUM_CONTINUE_TOKENS, issued, now,
                   schema_version>>

accumulation_new_handler(src) == new_handler(src, "accumulation")

forming_new_handler(src) == new_handler(src, "forming")

cgp_new_handler(src) == new_handler(src, "cgp")

\* ------------------------------------------------------------- continue handlers
\* callback.from_user.id: the operator, or another user of the bot
Visitor == 2

Users == {Operator, Visitor}

\* the FSMContext the dispatcher hands to a handler for an update of the user
Session(user) == IF user = Operator THEN [fsm |-> fsm, data |-> data] ELSE visitor

SetSession(user, st, d) ==
    IF user = Operator
    THEN fsm' = st /\ data' = d /\ UNCHANGED visitor
    ELSE visitor' = [fsm |-> st, data |-> d] /\ UNCHANGED <<fsm, data>>

\* the checks of a continue handler, in the order of the code
continue_outcome_AnyUser(user, src, token) ==
    IF Stale(Session(user).data, src) THEN "stale"
    ELSE IF token \notin DOMAIN ACCUM_CONTINUE_TOKENS THEN "not_found"
    ELSE IF Expired(ACCUM_CONTINUE_TOKENS[token], now) THEN "expired"
    ELSE "resolved"

continue_outcome_NoTtl(user, src, token) ==
    IF Stale(Session(user).data, src) THEN "stale"
    ELSE IF \/ token \notin DOMAIN ACCUM_CONTINUE_TOKENS
            \/ ACCUM_CONTINUE_TOKENS[token].user_id # user THEN "not_found"
    ELSE "resolved"

continue_outcome(user, src, token) ==
    IF Stale(Session(user).data, src) THEN "stale"
    ELSE IF \/ token \notin DOMAIN ACCUM_CONTINUE_TOKENS
            \/ ACCUM_CONTINUE_TOKENS[token].user_id # user THEN "not_found"
    ELSE IF Expired(ACCUM_CONTINUE_TOKENS[token], now) THEN "expired"
    ELSE "resolved"

\* callback.answer(text, show_alert=True) of the two refusals
continue_alert(outcome) ==
    IF outcome \in {"not_found", "expired"} THEN Reply(outcome, None) ELSE NoReply

continue_data_NoGoods(d, user, p, tok) ==
    update_data(d, [user_id |-> user, process_name |-> p,
                    values |-> EmptyMap, photos |-> EmptyMap, step_index |-> 0,
                    pending_photo_required |-> FALSE, pending_photo_param_key |-> None,
                    accumulation_qr_goods |-> None, cgp_qr_goods |-> None])

\* state.update_data(...) of a continue handler with the payload tok
continue_data(d, user, p, tok) ==
    LET common == [user_id |-> user, process_name |-> p,
                   values |-> EmptyMap, photos |-> EmptyMap, step_index |-> 0,
                   pending_photo_required |-> FALSE, pending_photo_param_key |-> None]
    IN  IF p = "accumulation"
        THEN update_data(update_data(d, common),
                 [accumulation_qr_goods |-> tok.goods, accumulation_qr_tare |-> tok.tare])
        ELSE update_data(update_data(d, common),
                 [cgp_qr_goods |-> tok.goods, cgp_qr_tare |-> tok.tare])

\* accumulation_continue_handler / cgp_continue_handler: "<p>_continue:<token>",
\* from its start to "await clear_state_for_process(...)", where the handler
\* waits for the database and the dispatcher runs the handlers of other updates.
\* The button was on the message that offered the token; the callback handlers
\* edit that message in place, so it can still be the last one (src = "last")
\* whatever it shows by now.
continue_handler(user, src, p, token) ==
    /\ IF user = Operator
       THEN src = "last" => data.last_bot_message_id # NoMsg
       ELSE src = "old"
    /\ token \in 1..Len(issued) /\ issued[token] = p
    /\ reply' = continue_alert(continue_outcome(user, src, token))
    /\ UNCHANGED <<state_storage, control_data, forming_open, issued, now, schema_version>>
    /\ CASE continue_outcome(user, src, token) = "resolved" ->
              /\ Len(calls) < MaxCalls
              /\ SetSession(user, Session(user).fsm,
                     continue_data(Session(user).data, user, p, ACCUM_CONTINUE_TOKENS[token]))
              /\ calls' = Append(calls, [user |-> user, process |-> p, token |-> token])
              /\ UNCHANGED ACCUM_CONTINUE_TOKENS
         [] continue_outcome(user, src, token) = "expired" ->
              /\ ACCUM_CONTINUE_TOKENS' = Pop(ACCUM_CONTINUE_TOKENS, token)
              /\ UNCHANGED <<fsm, data, visitor, calls>>
         [] OTHER ->
              UNCHANGED <<fsm, data, visitor, calls, ACCUM_CONTINUE_TOKENS>>

accumulation_continue_handler(user, src, token) == continue_handler(user, src, "accumulation", token)

cgp_continue_handler(user, src, token) == continue_handler(user, src, "cgp", token)

\* try: del ACCUM_CONTINUE_TOKENS[token] / except Exception: pass
del_token_Kept(toks, token) == toks

del_token(toks, token) == Pop(toks, token)

Without(seq, i) == [j \in 1..(Len(seq) - 1) |-> IF j < i THEN seq[j] ELSE seq[j + 1]]

\* the rest of a continue handler: the draft is deleted, state.set_state(param_menu),
\* show_param_menu edits the message in place, del ACCUM_CONTINUE_TOKENS[token]
continue_resume(i) ==
    /\ i \in DOMAIN calls
    /\ LET c == calls[i]
           d == Session(c.user).data
       IN  /\ state_storage' = IF c.user = Operator
                               THEN clear_state_for_process(state_storage, c.process)
                               ELSE state_storage
           /\ SetSession(c.user, St_param_menu, show_param_menu(d))
           /\ ACCUM_CONTINUE_TOKENS' = del_token(ACCUM_CONTINUE_TOKENS, c.token)
           /\ calls' = Without(calls, i)
    /\ reply' = NoReply
    /\ UNCHANGED <<control_data, forming_open, issued, now, schema_version>>

\* forming_continue_handler: "forming_continue:<session_id>"
forming_continue_handler(src) ==
    /\ FromMessage(src, {"stage"})
    /\ src = "last" => data.last_bot_message_id.proc = "forming"
    /\ src = "old" => forming_open
    /\ IF Stale(data, src) THEN
          /\ reply' = NoReply
          /\ UNCHANGED <<fsm, data, state_storage>>
       ELSE
          LET d1 == update_data(data,
                        [user_id |-> Operator, process_name |-> "forming", forming_session_id |-> 1,
                         values |-> EmptyMap, photos |-> EmptyMap, step_index |-> 0,
                         pending_photo_required |-> FALSE, pending_photo_param_key |-> None])
          IN  /\ state_storage' = clear_state_for_process(state_storage, "forming")
              /\ fsm' = St_param_menu
              /\ data' = show_param_menu(d1)
              /\ reply' = NoReply
    /\ UNCHANGED <<control_data, forming_open, ACCUM_CONTINUE_TOKENS, issued, now, schema_version>>

\* ------------------------------------------------------------- process_qr_code
\* what pyzbar.decode reports for a code: its type, its data, its rect
Detection(type, text, left, width, height) ==
    [type |-> type, text |-> text, left |-> left, width |-> width, height |-> height]

\* three texts in three rects (left, width, height), and a barcode that is no QR code
Detections ==
    {Detection("QRCODE", t, r[1], r[2], r[3]) :
        t \in {"T1", "G1", "X1"}, r \in {<<5, 2, 5>>, <<80, 5, 10>>, <<40, 5, 6>>}}
    \cup {Detection("EAN13", "T1", 5, 5, 10)}

\* the codes of a photo, in the order pyzbar reports them
Photos == UNION {[1..n -> Detections] : n \in 0..MaxCodes}

\* the photos the operator sends in the workflow: no code, or tare left and goods right
QrPhotos == {<<>>, <<Detection("QRCODE", "T1", 5, 5, 10), Detection("QRCODE", "G1", 80, 5, 10)>>}

\* list.sort(key=...): ascending and stable; keys[i] is the key of s[i]
sorted_by(s, keys) ==
    LET n == Len(s)
        rank(i) == 1 + Cardinality({j \in 1..n :
                        keys[j] < keys[i] \/ (keys[j] = keys[i] /\ j < i)})
    IN  [m \in 1..n |-> s[CHOOSE i \in 1..n : rank(i) = m]]

\* the seen/uniq loop: the first item of every text, in the order of detection
uniq_by_text_All(items) == items

uniq_by_text(items) ==
    LET first == {i \in 1..Len(items) : \A j \in 1..(i - 1) : items[j].text # items[i].text}
        nth(n) == CHOOSE i \in first : Cardinality({j \in first : j < i}) = n - 1
    IN  [n \in 1..Cardinality(first) |-> items[nth(n)]]

\* getattr(o, 'type', '') == 'QRCODE'
is_qrcode_Any(o) == TRUE

is_qrcode(o) == o.type = "QRCODE"

\* _sync_decode_multi_qr(image_path): photo is what pyzbar finds in the image,
\* raises whether Image.open, pyzbar.decode or o.data.decode raises
_sync_decode_multi_qr(photo, raises) ==
    IF raises THEN <<>>
    ELSE
        LET objs == SelectSeq(photo, is_qrcode)
            items == [i \in 1..Len(objs) |->
                         [text |-> objs[i].text, x |-> objs[i].left,
                          area |-> objs[i].width * objs[i].height]]
            uniq == uniq_by_text(items)
            by_area == sorted_by(uniq, [i \in 1..Len(uniq) |-> 0 - uniq[i].area])
            top2 == SubSeq(by_area, 1, IF Len(by_area) < 2 THEN Len(by_area) ELSE 2)
        IN  sorted_by(top2, [i \in 1..Len(top2) |-> top2[i].x])

\* every photo with what the decoder returns for it; a file that cannot be
\* opened shows no code
Scans ==
    {[photo |-> photo, raises |-> FALSE, results |-> _sync_decode_multi_qr(photo, FALSE)] :
        photo \in Photos}
    \cup {[photo |-> <<>>, raises |-> TRUE, results |-> _sync_decode_multi_qr(<<>>, TRUE)]}

\* what the decoder returns for the photos of the workflow
QrResults == {_sync_decode_multi_qr(photo, FALSE) : photo \in QrPhotos}

\* "Левый = тара, правый = товар. Если один — считаем его «товар»."
qr_roles_Swapped(results) ==
    IF Len(results) = 1
    THEN [tare |-> results[1].text, goods |-> None]
    ELSE [tare |-> results[2].text, goods |-> results[1].text]

qr_roles(results) ==
    IF Len(results) = 1
    THEN [tare |-> None, goods |-> results[1].text]
    ELSE [tare |-> results[1].text, goods |-> results[2].text]

\* a photo, in Process.waiting_for_qr; download_ok is the download, results the
\* decoded codes, session_ok whether the forming_sessions query yields a session_id
process_qr_code(download_ok, results, session_ok) ==
    /\ fsm = St_waiting_for_qr
    /\ UNCHANGED <<control_data, ACCUM_CONTINUE_TOKENS, issued, now, schema_version>>
    /\ IF ~download_ok THEN
          /\ reply' = NoReply
          /\ UNCHANGED <<fsm, data, state_storage, forming_open>>
       ELSE IF results = <<>> THEN
          /\ reply' = NoReply
          /\ UNCHANGED <<fsm, data, state_storage, forming_open>>
       ELSE
          LET tare_text == qr_roles(results).tare
              goods_text == qr_roles(results).goods
              after == data.process_name_after_qr
              done(d) == update_data(d, [process_name_after_qr |-> None])
          IN  /\ reply' = NoReply
              /\ CASE after = "forming" ->
                        IF session_ok THEN
                           /\ forming_open' = TRUE
                           /\ fsm' = St_param_menu
                           /\ data' = done(show_param_menu(update_data(data,
                                  [user_id |-> Operator, process_name |-> "forming",
                                   forming_session_id |-> 1, step_index |-> 0, sample_number |-> 1,
                                   values |-> EmptyMap, photos |-> EmptyMap,
                                   pending_photo_required |-> FALSE,
                                   pending_photo_param_key |-> None])))
                           /\ UNCHANGED state_storage
                        ELSE
                           /\ fsm' = None
                           /\ data' = EmptyData
                           /\ state_storage' = clear_state_for_process(state_storage, "forming")
                           /\ UNCHANGED forming_open
                   [] after = "accumulation" ->
                        /\ fsm' = St_param_menu
                        /\ data' = done(show_param_menu(update_data(data,
                               [user_id |-> Operator, process_name |-> "accumulation",
                                accumulation_qr_tare |-> tare_text,
                                accumulation_qr_goods |-> goods_text,
                                values |-> EmptyMap, photos |-> EmptyMap,
                                pending_photo_required |-> FALSE,
                                pending_photo_param_key |-> None])))
                        /\ state_storage' = clear_state_for_process(state_storage, "accumulation")
                        /\ UNCHANGED forming_open
                   [] after = "packaging" ->
                        /\ fsm' = St_param_menu
                        /\ data' = done(start_process_data("packaging"))
                        /\ UNCHANGED <<state_storage, forming_open>>
                   [] after = "cgp" ->
                        /\ fsm' = St_param_menu
                        /\ data' = done(show_param_menu(update_data(data,
                               [user_id |-> Operator, process_name |-> "cgp",
                                cgp_qr_tare |-> tare_text,
                                cgp_qr_goods |-> goods_text,
                                values |-> EmptyMap, photos |-> EmptyMap,
                                pending_photo_required |-> FALSE,
                                pending_photo_param_key |-> None])))
                        /\ state_storage' = clear_state_for_process(state_storage, "cgp")
                        /\ UNCHANGED forming_open
                   [] OTHER ->
                        /\ data' = done(data)
                        /\ UNCHANGED <<fsm, state_storage, forming_open>>

\* ------------------------------------------------------------- forming samples
\* forming_confirm_handler: any button not handled earlier, in Process.forming_confirm_next
forming_confirm_handler(button) ==
    /\ fsm = St_forming_confirm_next
    /\ UNCHANGED <<control_data, ACCUM_CONTINUE_TOKENS, issued, now, schema_version>>
    /\ CASE button = "forming_add_another" ->
              LET n == IF data.sample_number = 0 THEN 1 ELSE data.sample_number
              IN  /\ n + 1 <= MaxSamples
                  /\ fsm' = St_param_menu
                  /\ data' = show_param_menu(update_data(data,
                         [step_index |-> 0, sample_number |-> n + 1,
                          values |-> EmptyMap, photos |-> EmptyMap]))
                  /\ reply' = NoReply
                  /\ UNCHANGED <<state_storage, forming_open>>
         [] button = "forming_finish" ->
              /\ forming_open' = IF data.forming_session_id # 0 THEN FALSE ELSE forming_open
              /\ fsm' = None
              /\ data' = EmptyData
              /\ state_storage' = IF data.process_name # None
                                  THEN clear_state_for_process(state_storage, data.process_name)
                                  ELSE state_storage
              /\ reply' = NoReply

\* process_navigation: the "process_back" button, in Process.in_progress
process_navigation(src) ==
    /\ fsm = St_in_progress
    /\ FromMessage(src, {"question"})
    /\ IF Stale(data, src) THEN
          /\ reply' = NoReply
          /\ UNCHANGED <<fsm, data, state_storage>>
       ELSE
          /\ fsm' = St_param_menu
          /\ state_storage' = save_state_to_db(state_storage, St_param_menu, data)
          /\ data' = show_param_menu(data)
          /\ reply' = NoReply
    /\ UNCHANGED <<control_data, forming_open, ACCUM_CONTINUE_TOKENS, issued, now, schema_version>>

\* ------------------------------------------------------------- the environment
\* the process stops and starts again: MemoryStorage and the token dict are lost
Restart ==
    /\ fsm' = None
    /\ data' = EmptyData
    /\ ACCUM_CONTINUE_TOKENS' = EmptyMap
    /\ reply' = NoReply
    /\ calls' = <<>>
    /\ visitor' = NoSession
    /\ UNCHANGED <<state_storage, control_data, forming_open, issued, now, schema_version,
                   selected, earlier, scanned>>

\* a restart into a revision whose step lists changed
Redeploy ==
    /\ schema_version <= MaxDeploys
    /\ schema_version' = schema_version + 1
    /\ fsm' = None
    /\ data' = EmptyData
    /\ ACCUM_CONTINUE_TOKENS' = EmptyMap
    /\ reply' = NoReply
    /\ calls' = <<>>
    /\ visitor' = NoSession
    /\ UNCHANGED <<state_storage, control_data, forming_open, issued, now, selected, earlier,
                   scanned>>

\* the next reading of datetime.now(): the clock is read at the start, one
\* TOKEN_TTL_SECONDS later, and every second after that
NextReading(t) == IF t < TOKEN_TTL_SECONDS THEN TOKEN_TTL_SECONDS ELSE t + 1

\* time passes
Tick ==
    /\ NextReading(now) < TOKEN_TTL_SECONDS + MaxTicks
    /\ now' = NextReading(now)
    /\ UNCHANGED <<fsm, data, state_storage, control_data, forming_open,
                   ACCUM_CONTINUE_TOKENS, issued, schema_version, reply, selected,
                   calls, visitor, earlier, scanned>>

\* The model follows the operator up to the MaxRecords-th record, with at most
\* MaxDrafts processes left unfinished and sessions in at most MaxStages processes
\* (the stage buttons of the other processes are still pressed).
Running == Len(control_data) < earlier + MaxRecords

Worked(d) == IF d.process_name = None THEN {} ELSE {d.process_name}

Limits ==
    /\ Running
    /\ Cardinality(DOMAIN state_storage') <= MaxDrafts
    /\ selected' = selected \cup Worked(data')
    /\ Cardinality(selected') <= MaxStages
    /\ UNCHANGED earlier

\* a handler other than the continue handlers
Bounded == Limits /\ UNCHANGED <<calls, visitor, scanned>>

Done == \E src \in Sources, ok \in BOOLEAN : param_menu_done(src, ok) /\ Bounded

Open ==
    \E src \in Sources, p \in Stages, ok \in BOOLEAN :
        \E key \in OperatorKeys[p] \cup {ForeignKey} :
            param_open_handler(src, p, key, ok) /\ Bounded

Choice == \E src \in Sources, val \in CallbackValues : process_choice_answer(src, val) /\ Bounded

Answer == \E text \in FloatTexts : process_step_answer(text) /\ Bounded

Photo == \E ok \in BOOLEAN : handle_param_photo(ok) /\ Bounded

Comment == \E text \in Texts : handle_param_comment(text) /\ Bounded

Cancel == process_cancel_callback /\ Bounded

Start == cmd_start /\ Bounded

Stage == \E stage_name \in StageNames : process_stage_selection(stage_name) /\ Bounded

AccumulationNew ==
    \E src \in Sources : accumulation_new_handler(src) /\ Bounded

FormingNew == \E src \in Sources : forming_new_handler(src) /\ Bounded

CgpNew == \E src \in Sources : cgp_new_handler(src) /\ Bounded

AccumulationContinue ==
    \E user \in Users, src \in Sources, token \in 1..MaxTokens :
        accumulation_continue_handler(user, src, token) /\ Limits /\ UNCHANGED scanned

CgpContinue ==
    \E user \in Users, src \in Sources, token \in 1..MaxTokens :
        cgp_continue_handler(user, src, token) /\ Limits /\ UNCHANGED scanned

Resume == \E i \in DOMAIN calls : continue_resume(i) /\ Limits /\ UNCHANGED scanned

FormingContinue == \E src \in Sources : forming_continue_handler(src) /\ Bounded

\* the operator sends a photo of the two labels, or one that shows no code
Qr ==
    \E download_ok \in BOOLEAN, results \in QrResults, session_ok \in BOOLEAN :
        process_qr_code(download_ok, results, session_ok) /\ Bounded

\* the operator sends any photo, up to the first one a code is read from;
\* scanned keeps the photo with what the decoder returned
Scan ==
    \E sc \in Scans, session_ok \in BOOLEAN :
        /\ scanned.results = <<>>
        /\ process_qr_code(TRUE, sc.results, session_ok)
        /\ scanned' = sc
        /\ Limits
        /\ UNCHANGED <<calls, visitor>>

\* the buttons under a saved sample are still pressed after the last record
FormingConfirm ==
    \E button \in {"forming_add_another", "forming_finish"} :
        /\ forming_confirm_handler(button)
        /\ Cardinality(DOMAIN state_storage') <= MaxDrafts
        /\ selected' = selected \cup Worked(data')
        /\ UNCHANGED <<calls, visitor, earlier, scanned>>

Back == \E src \in Sources : process_navigation(src) /\ Bounded

Crash == Restart /\ Running

Deploy == Redeploy /\ Running

Clock == Tick /\ Running

\* the workflow of one operator up to the MaxRecords-th record; the buttons that
\* need an earlier accumulation or cgp record are left to their own behaviours
Next ==
    \/ Done
    \/ Open
    \/ Choice
    \/ Answer
    \/ Photo
    \/ Comment
    \/ Cancel
    \/ Start
    \/ Stage
    \/ FormingNew
    \/ FormingContinue
    \/ Qr
    \/ FormingConfirm
    \/ Back
    \/ Crash
    \/ Deploy

Spec == Init /\ [][Next]_vars

\* ------------------------------------------------------------- after a restart
\* the session an earlier run of the bot finished for stage p
EarlierSession(p) ==
    LET step == Chain(p)[Len(Chain(p))]
        d == update_data(EmptyData,
                 [user_id |-> Operator, process_name |-> p,
                  values |-> Put(EmptyMap, step.key, step.choices[1])])
    IN  IF p = "accumulation"
        THEN update_data(d, [accumulation_qr_goods |-> "G1", accumulation_qr_tare |-> "T1"])
        ELSE update_data(d, [cgp_qr_goods |-> "G1", cgp_qr_tare |-> "T1"])

\* the bot starts with an accumulation or cgp row of the operator in control_data
InitTokens ==
    /\ fsm = None
    /\ data = EmptyData
    /\ state_storage = EmptyMap
    /\ control_data \in {<<record_of(EarlierSession(p))>> : p \in {"accumulation", "cgp"}}
    /\ forming_open = FALSE
    /\ ACCUM_CONTINUE_TOKENS = EmptyMap
    /\ issued = <<>>
    /\ now = 0
    /\ schema_version = 1
    /\ reply = NoReply
    /\ selected = {}
    /\ calls = <<>>
    /\ visitor = NoSession
    /\ earlier = 1
    /\ scanned = NotScanned

NextTokens ==
    \/ Open
    \/ Choice
    \/ Cancel
    \/ Stage
    \/ AccumulationNew
    \/ CgpNew
    \/ AccumulationContinue
    \/ CgpContinue
    \/ Resume
    \/ Crash
    \/ Clock

\* time passes whatever the operator does
SpecTokens == InitTokens /\ [][NextTokens]_vars /\ WF_vars(Clock)

\* ------------------------------------------------------------- sessions about to finish
\* The operator has answered one to MaxValues steps of a process, in any order
\* (the menu offers every step), and is back at the menu: the float steps hold a
\* number inside their bounds, different for every step, the choice steps their
\* first option.
AnsweredSession(p, S) ==
    LET ch == Chain(p)
        answer(i) == IF ch[i].type = "float" THEN i ELSE ch[i].choices[1]
    IN  update_data(start_process_data(p),
            [values |-> [k \in S |-> answer(StepIndexOf(p, k))],
             forming_session_id |-> IF p = "forming" THEN 1 ELSE 0,
             accumulation_qr_goods |-> IF p = "accumulation" THEN "G1" ELSE None,
             cgp_qr_goods |-> IF p = "cgp" THEN "G1" ELSE None])

InitRecords ==
    \E p \in Stages : \E S \in {T \in SUBSET StepKeys(p) : Cardinality(T) \in 1..MaxValues} :
        /\ fsm = St_param_menu
        /\ data = AnsweredSession(p, S)
        /\ schema_version = 1
        /\ state_storage = save_state_to_db(EmptyMap, St_param_menu, data)
        /\ control_data = <<>>
        /\ forming_open = (p = "forming")
        /\ ACCUM_CONTINUE_TOKENS = EmptyMap
        /\ issued = <<>>
        /\ now = 0
        /\ reply = NoReply
        /\ selected = {p}
        /\ calls = <<>>
        /\ visitor = NoSession
        /\ earlier = 0
        /\ scanned = NotScanned

NextRecords ==
    \/ Done
    \/ Cancel

SpecRecords == InitRecords /\ [][NextRecords]_vars

\* ------------------------------------------------------------- any photo
\* The operator has chosen a stage that starts with the QR photo
\* (process_stage_selection or a "new" button) and sends photos of any content
\* until a code is read, or cancels.
InitDecode ==
    \E p \in {"forming", "accumulation", "cgp"} :
        /\ fsm = St_waiting_for_qr
        /\ data = update_data(EmptyData, [process_name_after_qr |-> p])
        /\ state_storage = EmptyMap
        /\ control_data = <<>>
        /\ forming_open = FALSE
        /\ ACCUM_CONTINUE_TOKENS = EmptyMap
        /\ issued = <<>>
        /\ now = 0
        /\ schema_version = 1
        /\ reply = NoReply
        /\ selected = {}
        /\ calls = <<>>
        /\ visitor = NoSession
        /\ earlier = 0
        /\ scanned = NotScanned

NextDecode ==
    \/ Scan
    \/ Cancel

SpecDecode == InitDecode /\ [][NextDecode]_vars

\* ------------------------------------------------------------- concurrent updates
\* dp.start_polling handles every update in a task of its own and the Dispatcher
\* has no events isolation: while a handler is suspended at an await the
\* handlers of the operator's next updates run on the same session.
\*
\* handle_param_photo up to "await bot.get_file(...)": the state filter has passed
\* and state.get_data() is read.  The call keeps what it read; at and during are
\* the session and drafts at that moment and the handlers that ran since.
photo_begin ==
    /\ fsm = St_waiting_for_param_photo
    /\ Len(calls) < MaxCalls
    /\ calls' = Append(calls, [handler |-> "photo", read |-> data,
                               at |-> [fsm |-> fsm, data |-> data, store |-> state_storage],
                               during |-> <<>>])
    /\ reply' = NoReply
    /\ UNCHANGED <<fsm, data, state_storage, control_data, forming_open,
                   ACCUM_CONTINUE_TOKENS, issued, now, schema_version>>

\* the handlers that ran while call c was suspended, up to MaxCalls of them
Overlapped(c, handler) ==
    [c EXCEPT !.during = IF Len(@) < MaxCalls THEN Append(@, handler) ELSE @]

\* handle_param_photo from the download on: ok is the download.  data.get('photos')
\* is the dict read before the await; state.get_data() returns a copy of the
\* stored dict, and whether the dicts inside it are copied too (shared = FALSE)
\* or are the stored objects themselves (shared = TRUE) is left to the storage.
photo_resume(i, ok, shared) ==
    /\ i \in DOMAIN calls
    /\ calls[i].handler = "photo"
    /\ calls' = [j \in 1..(Len(calls) - 1) |->
                    Overlapped(Without(calls, i)[j], "photo")]
    /\ LET read == calls[i].read
           k == read.pending_photo_param_key
           photos == IF shared THEN data.photos ELSE read.photos
           old == IF k \in DOMAIN photos THEN photos[k] ELSE <<>>
           d1 == update_data(data, [photos |-> append_photo(photos, k),
                                    pending_photo_required |-> FALSE])
       IN  IF k = None \/ ~ok THEN
              /\ reply' = NoReply
              /\ UNCHANGED <<fsm, data, state_storage>>
           ELSE
              /\ Len(old) < MaxPhotos
              /\ fsm' = St_param_menu
              /\ state_storage' = save_state_to_db(state_storage, St_param_menu, d1)
              /\ data' = show_param_menu(d1)
              /\ reply' = NoReply
    /\ UNCHANGED <<control_data, forming_open, ACCUM_CONTINUE_TOKENS, issued, now, schema_version>>

PhotoBegin == photo_begin /\ Limits /\ UNCHANGED <<visitor, scanned>>

PhotoResume ==
    \E i \in DOMAIN calls, ok \in BOOLEAN, shared \in BOOLEAN :
        photo_resume(i, ok, shared) /\ Limits /\ UNCHANGED <<visitor, scanned>>

\* "cancel_action" pressed while photos are being downloaded
CancelDuring ==
    /\ process_cancel_callback
    /\ calls' = [j \in DOMAIN calls |-> Overlapped(calls[j], "cancel")]
    /\ Limits
    /\ UNCHANGED <<visitor, scanned>>

\* the operator is asked a choice step of a new session (param_open_handler),
\* answers it, sends photos and presses "cancel_action" in any order
InitRace ==
    \E p \in Stages : \E i \in {j \in 1..Len(Chain(p)) : Chain(p)[j].type = "choice"} :
        /\ fsm = St_in_progress
        /\ data = update_data(AnsweredSession(p, {}),
                      [step_index |-> i - 1, last_bot_message_id |-> QuestionMsg(p, i - 1)])
        /\ schema_version = 1
        /\ state_storage = save_state_to_db(EmptyMap, St_in_progress,
                               update_data(AnsweredSession(p, {}), [step_index |-> i - 1]))
        /\ control_data = <<>>
        /\ forming_open = (p = "forming")
        /\ ACCUM_CONTINUE_TOKENS = EmptyMap
        /\ issued = <<>>
        /\ now = 0
        /\ reply = NoReply
        /\ selected = {p}
        /\ calls = <<>>
        /\ visitor = NoSession
        /\ earlier = 0
        /\ scanned = NotScanned

NextRace ==
    \/ Choice
    \/ PhotoBegin
    \/ PhotoResume
    \/ CancelDuring

SpecRace == InitRace /\ [][NextRace]_vars

\* ------------------------------------------------------------- stored drafts
\* The table holds one draft, written by an earlier save or damaged since; the
\* operator has no session (the bot was restarted) or is at the menu of a
\* session with answers, and chooses a stage or cancels.
InitDrafts ==
    \E p \in Stages :
    \E live \in {EmptyData} \cup
                UNION {{AnsweredSession(q, S) : S \in SUBSET OperatorKeys[q]} : q \in Stages} :
    \E row \in {Unreadable} \cup
               {json_dumps(AnsweredSession(p, {k}), St_param_menu) : k \in OperatorKeys[p]} :
        /\ fsm = IF live = EmptyData THEN None ELSE St_param_menu
        /\ data = live
        /\ schema_version = 1
        /\ state_storage = Put(EmptyMap, p, [state_data |-> row, written_by |-> schema_version])
        /\ control_data = <<>>
        /\ forming_open = (live.process_name = "forming")
        /\ ACCUM_CONTINUE_TOKENS = EmptyMap
        /\ issued = <<>>
        /\ now = 0
        /\ reply = NoReply
        /\ selected = Worked(live)
        /\ calls = <<>>
        /\ visitor = NoSession
        /\ earlier = 0
        /\ scanned = NotScanned

NextDrafts ==
    \/ Stage
    \/ Cancel

SpecDrafts == InitDrafts /\ [][NextDrafts]_vars

\* ------------------------------------------------------------- leaving a process
\* The operator answers a choice step, then leaves for another stage from the
\* main menu and sends the QR photo of that stage; the session may pass through
\* any number of processes.
Switching ==
    /\ Running
    /\ selected' = selected \cup Worked(data')
    /\ UNCHANGED <<earlier, calls, visitor, scanned>>

Leave == \E stage_name \in StageNames : process_stage_selection(stage_name) /\ Switching

Capture ==
    \E results \in QrResults, session_ok \in BOOLEAN :
        process_qr_code(TRUE, results, session_ok) /\ Switching

NextSwitch ==
    \/ Choice
    \/ Leave
    \/ Capture

SpecSwitch == InitRace /\ [][NextSwitch]_vars

\* ------------------------------------------------------------- after a record
\* finish_process has just inserted the record of a menu session with answers:
\* a forming session is at the buttons under the saved sample, its draft
\* written again after the delete; the session of any other process is cleared.
\* The operator goes on without answering any step.
InitAgain ==
    \E p \in Stages : \E S \in {T \in SUBSET StepKeys(p) : Cardinality(T) \in 1..MaxValues} :
        LET d == AnsweredSession(p, S)
            shown == update_data(d, [last_bot_message_id |-> ConfirmMsg])
        IN  /\ fsm = IF p = "forming" THEN St_forming_confirm_next ELSE None
            /\ data = IF p = "forming" THEN shown ELSE EmptyData
            /\ schema_version = 1
            /\ state_storage = IF p = "forming"
                               THEN save_state_to_db(EmptyMap, St_forming_confirm_next, shown)
                               ELSE EmptyMap
            /\ control_data = <<record_of(d)>>
            /\ forming_open = (p = "forming")
            /\ ACCUM_CONTINUE_TOKENS = EmptyMap
            /\ issued = <<>>
            /\ now = 0
            /\ reply = NoReply
            /\ selected = {p}
            /\ calls = <<>>
            /\ visitor = NoSession
            /\ earlier = 1
            /\ scanned = NotScanned

NextAgain ==
    \/ Done
    \/ Stage
    \/ FormingConfirm
    \/ Cancel
    \/ Start
    \/ Crash

SpecAgain == InitAgain /\ [][NextAgain]_vars

\* ------------------------------------------------------------- buttons of older messages
\* The operator was offered a continue token for an accumulation or cgp row,
\* then started a session from another message of the chat and answered a step:
\* the menu of that session is the last message, the message with the continue
\* and new buttons and the questions answered before are older ones.
InitStale ==
    \E p \in Stages, tp \in {"accumulation", "cgp"} : \E k \in OperatorKeys[p] :
        /\ fsm = St_param_menu
        /\ data = AnsweredSession(p, {k})
        /\ schema_version = 1
        /\ state_storage = save_state_to_db(EmptyMap, St_param_menu, data)
        /\ control_data = <<record_of(EarlierSession(tp))>>
        /\ forming_open = (p = "forming")
        /\ ACCUM_CONTINUE_TOKENS =
               Put(EmptyMap, 1, [user_id |-> Operator, goods |-> "G1", tare |-> "T1",
                                 created_at |-> 0])
        /\ issued = <<tp>>
        /\ now = 0
        /\ reply = NoReply
        /\ selected = {p}
        /\ calls = <<>>
        /\ visitor = NoSession
        /\ earlier = 1
        /\ scanned = NotScanned

NextStale ==
    \/ Done
    \/ Open
    \/ Choice
    \/ Back
    \/ AccumulationNew
    \/ FormingNew
    \/ CgpNew
    \/ AccumulationContinue
    \/ CgpContinue
    \/ Resume
    \/ FormingContinue

SpecStale == InitStale /\ [][NextStale]_vars

\* ------------------------------------------------------------- finishing a workflow
\* a step in which the operator's "param_done" press reaches the checks of
\* param_menu_done and finish_process; ok is the outcome of the INSERT
FinishCall(ok) ==
    \E src \in Sources : ~Stale(data, src) /\ param_menu_done(src, ok)

Succeeded == reply'.text \in {"saved", "saved_sample"}

NoDraft(p) == p \notin DOMAIN state_storage'

SessionUnchanged == fsm' = fsm /\ data' = data

C2_InsertFailurePreservesSession ==
    [][FinishCall(FALSE) /\ reply'.text = "insert_failed" =>
          /\ fsm' = fsm
          /\ data'.values = data.values
          /\ data'.photos = data.photos
          /\ data'.pending_photo_required = data.pending_photo_required
          /\ data'.pending_comment_required = data.pending_comment_required]_vars

\* C3: no step inserts a record while pending_photo_required or
\* pending_comment_required is set.
C3_NoInsertWhilePending ==
    [][data.pending_photo_required \/ data.pending_comment_required =>
          control_data' = control_data]_vars

\* C3 witness: the operator pressed "param_done" with a requirement pending
C3_Witness ==
    /\ reply.text \in {"pending_photo", "pending_comment"}
    /\ data.pending_photo_required \/ data.pending_comment_required
    /\ fsm = St_param_menu
    /\ control_data = <<>>

\* C6: a finish on a session with no collected value inserts no record and
\* leaves the session and the drafts as they were.
C6_EmptyValuesRejected ==
    [][\A ok \in BOOLEAN :
          FinishCall(ok) /\ DOMAIN data.values = {} =>
              /\ control_data' = control_data
              /\ SessionUnchanged
              /\ state_storage' = state_storage]_vars

\* C6 witness: the operator pressed "param_done" with nothing collected
C6_Witness ==
    /\ reply.text = "no_values"
    /\ DOMAIN data.values = {}
    /\ fsm = St_param_menu
    /\ control_data = <<>>

\* step k of the session's process has the flag
HasFlag(d, k, flag) ==
    /\ StepIndexOf(d.process_name, k) # 0
    /\ flag \in Chain(d.process_name)[StepIndexOf(d.process_name, k)].flags

\* a collected defect of a photo_on_defect step, without / with a photo under its key
DefectWithoutPhoto(d, k) ==
    /\ k \in DOMAIN d.values
    /\ HasFlag(d, k, "photo_on_defect")
    /\ is_choice_defect(k, d.values[k])
    /\ k \notin DOMAIN d.photos

DefectWithPhoto(d, k) ==
    /\ k \in DOMAIN d.values
    /\ HasFlag(d, k, "photo_on_defect")
    /\ is_choice_defect(k, d.values[k])
    /\ k \in DOMAIN d.photos

\* nothing is pending and every collected step meets its requirement
NothingUnmet(d) == finish_guard(d) = "" /\ unmet_keys(d) = {}

DefectWithoutComment(d, k) ==
    /\ k \in DOMAIN d.values
    /\ HasFlag(d, k, "comment_on_defect")
    /\ is_choice_defect(k, d.values[k])
    /\ (CommentKey(k) \notin DOMAIN d.values \/ d.values[CommentKey(k)] = <<>>)

\* C5: a finish with a defect of a comment_on_defect step and no non-empty
\* comment fails with the missing-comment error naming that step, inserts
\* nothing and leaves the session unchanged.
C5_MissingCommentNamesStep ==
    [][\A ok \in BOOLEAN : FinishCall(ok) =>
          \A k \in DOMAIN data.values : DefectWithoutComment(data, k) =>
              /\ reply' = Reply("defect_comment_required", k)
              /\ control_data' = control_data
              /\ SessionUnchanged]_vars

\* ------------------------------------------------------------- drafts
\* the draft of process p was written under another revision of the step lists
StaleDraft(p) ==
    load_found(state_storage, p) /\ state_storage[p].written_by # schema_version

\* C7: selecting a process whose stored draft was written under a schema version
\* other than the current one does not apply the draft to the live session and
\* deletes it.
C7_StaleDraftDiscarded ==
    [][\A p \in Stages :
          process_stage_selection(p) /\ StaleDraft(p) =>
              /\ p \notin DOMAIN state_storage'
              /\ ~(fsm' = resume_state(state_storage, p)
                    /\ data' = resume_data(state_storage, p))]_vars

\* the awaiting states that match the pending flags of session d
MatchingAwaiting(d) ==
    {st \in {St_waiting_for_param_photo} : d.pending_photo_required}
        \cup {st \in {St_waiting_for_param_comment} : d.pending_comment_required}

\* the session that process_stage_selection sets up, after a restart, from the
\* draft that save_state_to_db writes for the in-progress session (st, d)
Reloaded(st, d) ==
    LET store == save_state_to_db(state_storage, st, d)
    IN  [found |-> load_found(store, d.process_name),
         fsm |-> resume_state(store, d.process_name),
         data |-> resume_data(store, d.process_name)]

\* C8: for every in-progress session with a process name, saving the draft,
\* losing the memory and loading the draft again gives the saved values, step
\* index, pending flags and their step keys, and resumes the operator in the
\* matching awaiting state when a requirement was pending.
C8_DraftRoundTrip ==
    (fsm \in ProcessStates /\ data.process_name # None) =>
        /\ Reloaded(fsm, data).found
        /\ Reloaded(fsm, data).data.values = data.values
        /\ Reloaded(fsm, data).data.step_index = data.step_index
        /\ Reloaded(fsm, data).data.pending_photo_required = data.pending_photo_required
        /\ Reloaded(fsm, data).data.pending_photo_param_key = data.pending_photo_param_key
        /\ Reloaded(fsm, data).data.pending_comment_required = data.pending_comment_required
        /\ Reloaded(fsm, data).data.pending_comment_param_key = data.pending_comment_param_key
        /\ MatchingAwaiting(data) # {} => Reloaded(fsm, data).fsm \in MatchingAwaiting(data)

\* ------------------------------------------------------------- cancellation
\* a workflow is in progress: a Process state and a process name
InProgress == fsm \in ProcessStates /\ data.process_name # None

C10_CancelRevertsPending ==
    [][process_cancel_callback =>
          /\ (data.pending_photo_required /\ data.pending_photo_param_key # None) =>
                 /\ data.pending_photo_param_key \notin DOMAIN data'.values
                 /\ data.pending_photo_param_key \notin DOMAIN data'.photos
                 /\ ~data'.pending_photo_required
                 /\ data'.pending_photo_param_key = None
                 /\ fsm' = St_param_menu
          /\ (data.pending_comment_required /\ data.pending_comment_param_key # None) =>
                 /\ data.pending_comment_param_key \notin DOMAIN data'.values
                 /\ ~data'.pending_comment_required
                 /\ data'.pending_comment_param_key = None
                 /\ fsm' = St_param_menu]_vars

\* ------------------------------------------------------------- continuation tokens
\* C11: of two continue requests of the owner for the same token that the
\* dispatcher processes concurrently, at most one resolves the token: no two
\* handlers are past the token checks with the same token at the same time.
C11_AtMostOneResolves ==
    \A i, j \in DOMAIN calls :
        (i # j /\ calls[i].user = calls[j].user) => calls[i].token # calls[j].token

Attempt(user, token) ==
    \E src \in Sources, p \in Stages :
        /\ ~Stale(Session(user).data, src)
        /\ continue_handler(user, src, p, token)

Age(token) == now - ACCUM_CONTINUE_TOKENS[token].created_at

\* C13: a continue request is resolved only for a token that is in the store and
\* at most TOKEN_TTL_SECONDS old; when its owner asks for a token in the store
\* that is older, the request is not resolved, the session and the drafts stay as
\* they are, and the token is removed by that request.
C13_ResolvedWithinTtl ==
    [][\A user \in Users, t \in 1..Len(issued) :
          Attempt(user, t) =>
              /\ calls' # calls =>
                    /\ t \in DOMAIN ACCUM_CONTINUE_TOKENS
                    /\ Age(t) <= TOKEN_TTL_SECONDS
              /\ (/\ t \in DOMAIN ACCUM_CONTINUE_TOKENS
                  /\ ACCUM_CONTINUE_TOKENS[t].user_id = user
                  /\ Age(t) > TOKEN_TTL_SECONDS) =>
                    /\ t \notin DOMAIN ACCUM_CONTINUE_TOKENS'
                    /\ UNCHANGED <<fsm, data, visitor, state_storage, calls>>]_vars

\* the owner asked for token t from the message that offers it when t was older
\* than TOKEN_TTL_SECONDS: t left the store and nothing else moved
C13_Witness ==
    \E t \in 1..Len(issued) :
        /\ t \notin DOMAIN ACCUM_CONTINUE_TOKENS
        /\ now > TOKEN_TTL_SECONDS
        /\ data.last_bot_message_id = StageMsg(issued[t], t)
        /\ reply = Reply("expired", None)
        /\ calls = <<>>

\* C14: a continue request for a token of another user is answered as not found:
\* no session is built from the payload, nobody's session or draft changes, and
\* the token stays in the store as it is.
C14_OwnerOnly ==
    [][\A user \in Users, t \in 1..Len(issued) :
          (/\ t \in DOMAIN ACCUM_CONTINUE_TOKENS
           /\ ACCUM_CONTINUE_TOKENS[t].user_id # user
           /\ Attempt(user, t)) =>
              /\ reply' = Reply("not_found", None)
              /\ UNCHANGED <<fsm, data, visitor, state_storage, calls, ACCUM_CONTINUE_TOKENS>>]_vars

\* a user who is not the owner has just been told "not found" for a token that
\* is in the store, and has no session
C14_Witness ==
    /\ reply = Reply("not_found", None)
    /\ visitor = NoSession
    /\ \E t \in DOMAIN ACCUM_CONTINUE_TOKENS :
          ACCUM_CONTINUE_TOKENS[t].user_id = Operator /\ ~Expired(ACCUM_CONTINUE_TOKENS[t], now)

\* a continue request of the user for a token that is absent, of another user,
\* or older than TOKEN_TTL_SECONDS
Refused(user, token) ==
    /\ \/ token \notin DOMAIN ACCUM_CONTINUE_TOKENS
       \/ ACCUM_CONTINUE_TOKENS[token].user_id # user
       \/ Age(token) > TOKEN_TTL_SECONDS
    /\ Attempt(user, token)

\* C15: when a continue handler refuses a token (absent, expired, or of another
\* user) the FSM state and data of the requester (process, values, photos,
\* pending flags), those of everybody else and the stored drafts are unchanged.
C15_RefusalKeepsSession ==
    [][\A user \in Users, t \in 1..Len(issued) :
          Refused(user, t) => UNCHANGED <<fsm, data, visitor, state_storage, calls>>]_vars

\* the operator was refused a token while in a session with a collected value
C15_Witness ==
    /\ reply.text \in {"not_found", "expired"}
    /\ visitor = NoSession
    /\ ACCUM_CONTINUE_TOKENS = EmptyMap
    /\ fsm = St_param_menu
    /\ data.values # EmptyMap

\* C16: every token whose TTL has passed is eventually deleted from the store,
\* whatever the operators do.
C16_ExpiredEventuallyReaped ==
    \A t \in 1..MaxTokens :
        (t \in DOMAIN ACCUM_CONTINUE_TOKENS /\ Expired(ACCUM_CONTINUE_TOKENS[t], now))
            ~> (t \notin DOMAIN ACCUM_CONTINUE_TOKENS)

\* ------------------------------------------------------------- answers
\* a text message reaches the parse of a float step
AtFloatStep ==
    /\ fsm = St_in_progress
    /\ data.process_name \in Stages
    /\ data.step_index \in 0..(Len(Chain(data.process_name)) - 1)
    /\ Chain(data.process_name)[data.step_index + 1].type = "float"

CurrentStep == Chain(data.process_name)[data.step_index + 1]

\* min <= value <= max
InBounds(value, step) == value # NaN /\ step.min <= value /\ value <= step.max

\* the answer left Process.in_progress with value under the key of the step
Stored(key, value) ==
    /\ fsm' # St_in_progress
    /\ key \in DOMAIN data'.values
    /\ data'.values[key] = value

\* C17: a number sent to a float step with bounds [min, max] is stored if and
\* only if min <= value <= max, and rejected otherwise.
C17_StoredIffInBounds ==
    [][\A text \in FloatTexts :
          (AtFloatStep /\ ParseFloat(text) # <<>> /\ process_step_answer(text)) =>
              (Stored(CurrentStep.key, ParseFloat(text)[1])
                  <=> InBounds(ParseFloat(text)[1], CurrentStep))]_vars

\* a text message reaches the step of the session
AtStep ==
    /\ fsm = St_in_progress
    /\ data.process_name \in Stages
    /\ data.step_index \in 0..(Len(Chain(data.process_name)) - 1)

\* the text is free text for a choice step, is no number, or is a number below
\* the minimum or above the maximum of a float step
RejectedText(text) ==
    \/ CurrentStep.type = "choice"
    \/ ParseFloat(text) = <<>>
    \/ Less(ParseFloat(text)[1], CurrentStep.min)
    \/ Less(CurrentStep.max, ParseFloat(text)[1])

Rejections == {"use_buttons", "bad_format", "out_of_bounds"}

\* C18: a rejected text (free text for a choice step, no number, a number out of
\* bounds) is answered with the reason and leaves the FSM state, the whole session
\* data (values, photos, step index, pending flags) and the stored drafts as they
\* were.
C18_RejectionKeepsSession ==
    [][\A text \in FloatTexts :
          (AtStep /\ RejectedText(text) /\ process_step_answer(text)) =>
              /\ reply'.text \in Rejections
              /\ UNCHANGED <<fsm, data, state_storage>>]_vars

\* a text has just been rejected in a session that has a collected value and a draft
C18_Witness ==
    /\ reply.text \in Rejections
    /\ fsm = St_in_progress
    /\ data.values # EmptyMap
    /\ data.process_name \in DOMAIN state_storage

\* the canonical choice set of the step with the key in the chain of p; {} if none
ChoiceSet(p, key) ==
    IF StepIndexOf(p, key) # 0 /\ Chain(p)[StepIndexOf(p, key)].type = "choice"
    THEN Range(Chain(p)[StepIndexOf(p, key)].choices)
    ELSE {}

ChoiceKeys(p) == {k \in StepKeys(p) : Chain(p)[StepIndexOf(p, k)].type = "choice"}

\* C19: a selection that is not in the canonical choice set of its step is
\* rejected and never stored: every value the session holds under the key of a
\* choice step is one of the choices of that step.
C19_OnlyCanonicalChoices ==
    \A k \in DOMAIN data.values :
        k \in ChoiceKeys(data.process_name) => data.values[k] \in ChoiceSet(data.process_name, k)

\* ------------------------------------------------------------- start_process
\* the stage button whose handler reaches start_process(..., stage_name)
StartCall(stage_name) ==
    /\ stage_name \notin {"forming", "accumulation", "cgp"}
    /\ ~load_found(state_storage, stage_name)
    /\ process_stage_selection(stage_name)

\* a session of process p as start_process leaves it
FreshSession(p) ==
    /\ fsm' = St_param_menu
    /\ data'.process_name = p
    /\ data'.step_index = 0
    /\ data'.values = EmptyMap
    /\ data'.photos = EmptyMap
    /\ ~data'.pending_photo_required /\ data'.pending_photo_param_key = None
    /\ ~data'.pending_comment_required /\ data'.pending_comment_param_key = None

\* C20: start_process with a name that is no process fails and leaves the FSM
\* state, the session data and the drafts as they were; with a process it
\* replaces the session by a fresh one: step 0, no values, no photos, no pending
\* requirement, Process.param_menu.
C20_StartProcess ==
    [][\A stage_name \in StageNames :
          StartCall(stage_name) =>
              IF stage_name \in Stages
              THEN FreshSession(stage_name)
              ELSE UNCHANGED <<fsm, data, state_storage>>]_vars

\* start_process has built a packaging session: there is no draft it could have
\* been resumed from
C20_Witness ==
    /\ fsm = St_param_menu
    /\ data.process_name = "packaging"
    /\ data.step_index = 0
    /\ data.values = EmptyMap
    /\ data.last_bot_message_id = MenuMsg("packaging")
    /\ state_storage = EmptyMap

\* ------------------------------------------------------------- param_open_handler
\* a "param_open:<p>:<key>" callback that passes the last_bot_message_id check
OpenCall(p, key) ==
    \E src \in Sources, ok \in BOOLEAN :
        /\ ~Stale(data, src)
        /\ param_open_handler(src, p, key, ok)

\* C21: selecting a key of the step list of the session's process sets the step
\* index to the position of that step and enters Process.in_progress; selecting a
\* key that is not in that list is rejected: step index, FSM state, values and
\* drafts stay as they were.
C21_SelectStep ==
    [][\A p \in Stages, key \in AllStepKeys \cup {ForeignKey} :
          (data.process_name \in Stages /\ OpenCall(p, key)) =>
              IF key \in StepKeys(data.process_name)
              THEN /\ fsm' = St_in_progress
                   /\ data'.step_index = StepIndexOf(data.process_name, key) - 1
              ELSE UNCHANGED <<fsm, data, state_storage>>]_vars

\* ------------------------------------------------------------- photos and comments
\* a photo requirement is pending: the flag is set and names a step
PhotoPending == data.pending_photo_required /\ data.pending_photo_param_key # None

\* the images kept under key k
PhotosOf(d, k) == IF k \in DOMAIN d.photos THEN d.photos[k] ELSE <<>>

\* C22: a photo is accepted only while a photo requirement is pending; an
\* accepted photo is appended to the list under the pending key, the earlier
\* images of every key are kept, the pending flag is cleared and the session
\* is back in Process.param_menu; when the download fails nothing changes and the
\* requirement stays pending.
C22_SubmitImage ==
    [][\A ok \in BOOLEAN :
          handle_param_photo(ok) =>
              /\ ~PhotoPending => UNCHANGED <<fsm, data, state_storage>>
              /\ ~ok => UNCHANGED <<fsm, data, state_storage>>
              /\ (ok /\ PhotoPending) =>
                    LET k == data.pending_photo_param_key
                    IN  /\ Len(PhotosOf(data', k)) = Len(PhotosOf(data, k)) + 1
                        /\ \A i \in 1..Len(PhotosOf(data, k)) :
                              PhotosOf(data', k)[i] = PhotosOf(data, k)[i]
                        /\ \A j \in DOMAIN data.photos : j # k => PhotosOf(data', j) = data.photos[j]
                        /\ ~data'.pending_photo_required
                        /\ fsm' = St_param_menu]_vars

\* a second photo was accepted under a key that already had one
C22_Witness ==
    /\ fsm = St_param_menu
    /\ ~data.pending_photo_required
    /\ \E k \in DOMAIN data.photos : Len(data.photos[k]) = 2

\* a comment requirement is pending: the flag is set and names a step
CommentPending == data.pending_comment_required /\ data.pending_comment_param_key # None

\* C23: a comment is accepted only while a comment requirement is pending; the
\* accepted text is stored trimmed under "<pending key>_comment", every other
\* value stays as it was, the pending flag is cleared and the session is back in
\* Process.param_menu.
C23_SubmitComment ==
    [][\A text \in Texts :
          handle_param_comment(text) =>
              /\ CommentPending
              /\ LET ck == CommentKey(data.pending_comment_param_key)
                 IN  /\ DOMAIN data'.values = DOMAIN data.values \cup {ck}
                     /\ data'.values[ck] = Strip(text)
                     /\ \A j \in DOMAIN data.values : j # ck => data'.values[j] = data.values[j]
              /\ ~data'.pending_comment_required
              /\ fsm' = St_param_menu]_vars

\* a comment has been accepted for organoleptics and the session is back in the menu
C23_Witness ==
    /\ fsm = St_param_menu
    /\ ~data.pending_comment_required
    /\ data.pending_comment_param_key = "organoleptics"
    /\ "organoleptics_comment" \in DOMAIN data.values
    /\ "organoleptics" \in DOMAIN data.values

\* ------------------------------------------------------------- the headline value
\* the value of the first float step of the process in chain order, <<>> when the
\* process has no float step or that step has no value
FirstNumeric(d) ==
    LET ch == Chain(d.process_name)
        fl == {i \in 1..Len(ch) : ch[i].type = "float"}
        first == CHOOSE i \in fl : \A j \in fl : i <= j
    IN  IF fl = {} \/ ch[first].key \notin DOMAIN d.values THEN <<>>
        ELSE <<d.values[ch[first].key]>>

\* C24: the record's headline numeric value is the value of the first numeric
\* step of the process in chain order; a value collected for a later numeric
\* step never becomes the headline value.
C24_HeadlineIsFirstNumeric ==
    [][\A ok \in BOOLEAN :
          FinishCall(ok) /\ Succeeded =>
              control_data'[Len(control_data')].value_numeric = FirstNumeric(data)]_vars

\* ------------------------------------------------------------- decoding a photo
\* the QR codes of a photo, in the order of detection
QrCodes(photo) == SelectSeq(photo, LAMBDA o : o.type = "QRCODE")

\* the first detection of every decoded text
FirstOccurrences(photo) ==
    {i \in 1..Len(QrCodes(photo)) :
        \A j \in 1..(i - 1) : QrCodes(photo)[j].text # QrCodes(photo)[i].text}

Candidate(o) == [text |-> o.text, x |-> o.left, area |-> o.width * o.height]

\* results are candidates for photo: some of the first occurrences, two of them
\* if there are two, none smaller than a first occurrence left out, from left to right
IsDecodeOf(photo, results) ==
    LET codes == QrCodes(photo)
        first == FirstOccurrences(photo)
    IN  /\ Len(results) = (IF Cardinality(first) < 2 THEN Cardinality(first) ELSE 2)
        /\ \E kept \in SUBSET first :
              /\ {results[n] : n \in 1..Len(results)} = {Candidate(codes[i]) : i \in kept}
              /\ Cardinality(kept) = Len(results)
              /\ \A i \in kept, j \in first \ kept :
                    Candidate(codes[j]).area <= Candidate(codes[i]).area
        /\ \A m, n \in 1..Len(results) :
              m < n => results[m].x <= results[n].x /\ results[m].text # results[n].text

\* C25: for any detected codes Decode returns the candidates obtained by
\* deduplicating by decoded text (first occurrence kept), keeping at most the two
\* of largest area and ordering them by ascending left edge: at most two entries,
\* with different texts.
C25_Decode ==
    ~scanned.raises =>
        /\ IsDecodeOf(scanned.photo, scanned.results)
        /\ Len(scanned.results) <= 2

\* C25 witness: areas 10, 50, 30 at x 5, 80, 40 give [area 30 at x 40, area 50 at x 80]
C25_Witness ==
    /\ scanned.photo = <<Detection("QRCODE", "X1", 5, 2, 5),
                         Detection("QRCODE", "G1", 80, 5, 10),
                         Detection("QRCODE", "T1", 40, 5, 6)>>
    /\ scanned.results = <<[text |-> "T1", x |-> 40, area |-> 30],
                           [text |-> "G1", x |-> 80, area |-> 50]>>
    /\ fsm = St_param_menu

\* ------------------------------------------------------------- the roles of the codes
\* a step in which process_qr_code reads the codes of the photo kept in scanned'
QrCall(ok) == fsm = St_waiting_for_qr /\ process_qr_code(TRUE, scanned'.results, ok)

\* the item and container identifiers of the session of process p
QrGoods(d, p) == IF p = "accumulation" THEN d.accumulation_qr_goods ELSE d.cgp_qr_goods

QrTare(d, p) == IF p = "accumulation" THEN d.accumulation_qr_tare ELSE d.cgp_qr_tare

\* C26: when Decode yields exactly one candidate it becomes the item (goods)
\* identifier and the container (tare) identifier stays empty; when it yields two,
\* index 0 becomes the container identifier and index 1 the item identifier.
C26_Roles ==
    [][\A ok \in BOOLEAN, p \in {"accumulation", "cgp"} :
          LET results == scanned'.results
          IN  QrCall(ok) /\ data.process_name_after_qr = p /\ results # <<>> =>
                 /\ Len(results) = 1 =>
                       QrGoods(data', p) = results[1].text /\ QrTare(data', p) = None
                 /\ Len(results) = 2 =>
                       QrTare(data', p) = results[1].text /\ QrGoods(data', p) = results[2].text
                 /\ Len(results) \in {1, 2}]_vars

\* C26 witness: a photo with one code started a session with the code as goods
C26_Witness ==
    /\ Len(scanned.results) = 1
    /\ data.process_name = "accumulation"
    /\ data.accumulation_qr_goods = scanned.results[1].text
    /\ data.accumulation_qr_tare = None

\* ------------------------------------------------------------- no code in the photo
\* C27: when Decode finds no code, or decoding raises, the result is empty and the
\* capture step asks for another photo: no session is started, the session stays
\* in Process.waiting_for_qr and no identifier is recorded.
C27_Retake ==
    [][\A ok \in BOOLEAN :
          LET sc == scanned'
          IN  /\ sc.raises \/ QrCodes(sc.photo) = <<>> => sc.results = <<>>
              /\ QrCall(ok) /\ sc.results = <<>> =>
                    /\ fsm' = St_waiting_for_qr
                    /\ UNCHANGED <<data, state_storage, control_data, forming_open>>]_vars

\* C27 witness: a photo whose only code is not a QR code was sent and the
\* operator is still asked for the photo
C27_Witness ==
    /\ scanned.photo # <<>>
    /\ scanned.results = <<>>
    /\ fsm = St_waiting_for_qr
    /\ data.process_name = None

\* ------------------------------------------------------------- serialized actions
\* the session and the drafts before and after a step
Before == [fsm |-> fsm, data |-> data, store |-> state_storage]

After == [fsm |-> fsm', data |-> data', store |-> state_storage']

\* a photo whose download succeeds, handled alone from session s; outside
\* Process.waiting_for_param_photo no handler of a photo changes the session
AlonePhoto(s) ==
    LET k == s.data.pending_photo_param_key
        d1 == update_data(s.data, [photos |-> append_photo(s.data.photos, k),
                                   pending_photo_required |-> FALSE])
    IN  IF s.fsm = St_waiting_for_param_photo /\ k # None
        THEN [fsm |-> St_param_menu, data |-> show_param_menu(d1),
              store |-> save_state_to_db(s.store, St_param_menu, d1)]
        ELSE s

\* "cancel_action" handled alone from session s
AloneCancel(s) ==
    [fsm |-> cancel_state(s.fsm, s.data),
     data |-> cancel_data(s.fsm, s.data),
     store |-> cancel_store(s.store, cancel_state(s.fsm, s.data), cancel_data(s.fsm, s.data))]

\* C28: actions of the same operator are serialized: when a photo and a cancel
\* are delivered concurrently, the resulting session and draft are those of the
\* photo followed by the cancel or of the cancel followed by the photo.
C28_Serialized ==
    [][\A i \in DOMAIN calls, shared \in BOOLEAN :
          photo_resume(i, TRUE, shared) /\ calls[i].during = <<"cancel">> =>
              After \in {AloneCancel(AlonePhoto(calls[i].at)),
                         AlonePhoto(AloneCancel(calls[i].at))}]_vars

\* ------------------------------------------------------------- after a choice
\* a step in which process_choice_answer stores val for the current choice step
ChoiceCall(val) ==
    /\ AtStep
    /\ CurrentStep.type = "choice"
    /\ \E src \in Sources : ~Stale(data, src) /\ process_choice_answer(src, val)

PhotoDue(step, val) ==
    \/ "require_photo_always" \in step.flags
    \/ "photo_on_defect" \in step.flags /\ is_choice_defect(step.key, val)

CommentDue(step, val) ==
    "comment_on_defect" \in step.flags /\ is_choice_defect(step.key, val)

\* C29: a choice selection on the current step stores the value and then waits
\* for the photo of that step if the step always requires one or requires one
\* on a defect and the value is a defect; otherwise waits for the comment of
\* that step if the step requires one on a defect and the value is a defect;
\* otherwise returns to the menu with no pending requirement.
C29_AfterChoice ==
    [][\A val \in CallbackValues :
          ChoiceCall(val) =>
              LET step == CurrentStep
              IN  /\ step.key \in DOMAIN data'.values
                  /\ data'.values[step.key] = val
                  /\ IF PhotoDue(step, val) THEN
                        /\ fsm' = St_waiting_for_param_photo
                        /\ data'.pending_photo_required
                        /\ data'.pending_photo_param_key = step.key
                     ELSE IF CommentDue(step, val) THEN
                        /\ fsm' = St_waiting_for_param_comment
                        /\ data'.pending_comment_required
                        /\ data'.pending_comment_param_key = step.key
                     ELSE
                        /\ fsm' = St_param_menu
                        /\ ~data'.pending_photo_required
                        /\ ~data'.pending_comment_required]_vars

\* ------------------------------------------------------------- pending flags
\* C30: in every reachable session state at most one of the pending-photo and
\* pending-comment requirement flags is set.
C30_AtMostOnePending ==
    ~(data.pending_photo_required /\ data.pending_comment_required)

\* ------------------------------------------------------------- saving a draft
\* the rows of the processes other than p are the same before and after the step
OtherDraftsKept(p) ==
    \A q \in (DOMAIN state_storage \cup DOMAIN state_storage') \ {p} :
        /\ q \in DOMAIN state_storage
        /\ q \in DOMAIN state_storage'
        /\ state_storage'[q] = state_storage[q]

\* C31: SaveDraft (here called by /start) writes nothing unless the session is in
\* a Process state and has a process name; otherwise the row of the process
\* holds the session just saved and the other rows are untouched; saving again
\* without a change leaves the table as it is.
C31_SaveDraft ==
    [][cmd_start =>
          /\ IF fsm \in ProcessStates /\ data.process_name # None
             THEN /\ load_found(state_storage', data.process_name)
                  /\ load_data(state_storage', data.process_name) = data
                  /\ load_state(state_storage', data.process_name) = fsm
                  /\ OtherDraftsKept(data.process_name)
             ELSE state_storage' = state_storage
          /\ save_state_to_db(state_storage', fsm, data) = state_storage']_vars

\* C31 witness: the draft of the process is the session as it is, question on
\* screen included, which only a save of the whole session leaves behind
C31_Witness ==
    /\ fsm = St_in_progress
    /\ data.process_name # None
    /\ data.last_bot_message_id.kind = "question"
    /\ load_found(state_storage, data.process_name)
    /\ load_data(state_storage, data.process_name) = data
    /\ load_state(state_storage, data.process_name) = fsm

\* ------------------------------------------------------------- an unreadable draft
\* the collected data of the session are the same before and after the step
CollectedKept ==
    /\ data'.process_name = data.process_name
    /\ data'.values = data.values
    /\ data'.photos = data.photos
    /\ data'.step_index = data.step_index
    /\ data'.pending_photo_required = data.pending_photo_required
    /\ data'.pending_comment_required = data.pending_comment_required

\* C32: when the stored draft cannot be deserialized, LoadDraft deletes that
\* draft and returns not-found without raising: the stage button goes on as it
\* does without a draft (the QR photo is asked for, or a new session starts),
\* and nothing of the draft reaches the live session.
C32_UnreadableDraft ==
    [][\A p \in Stages :
          (/\ process_stage_selection(p)
           /\ load_found(state_storage, p)
           /\ ~load_ok(state_storage, p)) =>
              /\ ~load_found(state_storage', p)
              /\ OtherDraftsKept(p)
              /\ \/ CollectedKept
                 \/ fsm' = St_param_menu /\ data' = start_process_data(p)]_vars

\* C32 witness: the unreadable accumulation draft is gone, the operator is asked
\* for the QR photo and the answers of the live session are still there
C32_Witness ==
    /\ state_storage = EmptyMap
    /\ fsm = St_waiting_for_qr
    /\ data.process_name_after_qr = "accumulation"
    /\ data.values # EmptyMap

\* ------------------------------------------------------------- a new session
\* process_qr_code starts a session from the decoded labels
CaptureStart ==
    /\ fsm = St_waiting_for_qr
    /\ \E results \in QrResults, session_ok \in BOOLEAN :
          results # <<>> /\ process_qr_code(TRUE, results, session_ok)
    /\ fsm' = St_param_menu

\* a continue handler of the operator ends: the token is consumed and the menu
\* of the new session is shown
TokenStart ==
    \E i \in DOMAIN calls : calls[i].user = Operator /\ continue_resume(i)

\* C33: every session newly started through identifier capture or through
\* consuming a continuation token begins with no pending requirement: the
\* pending-photo and the pending-comment flag are both clear, whatever state
\* the operator was in before.
C33_StartsWithNothingPending ==
    [][(CaptureStart \/ TokenStart) =>
          /\ ~data'.pending_photo_required
          /\ ~data'.pending_comment_required]_vars

\* ------------------------------------------------------------- recorded once
\* C34: after a successful finish the same collected values are never handed to
\* control_data a second time unless the operator submits values again.  From
\* the state a successful finish leaves, with no step answered since, no stage
\* button, restart or sample button leads to another record.
C34_RecordedOnce ==
    [][Len(control_data) >= earlier => control_data' = control_data]_vars

\* ------------------------------------------------------------- what a record holds
\* C35: every record contains a value for at least one step key of the chain of
\* its process; a session whose values hold only a "<stepKey>_comment" entry
\* cannot be finished.
C35_RecordHoldsStepValue ==
    \A i \in DOMAIN control_data :
        DOMAIN control_data[i].values \cap StepKeys(control_data[i].stage_name) # {}

RecordsCarryGoods ==
    \A i \in DOMAIN control_data :
        control_data[i].stage_name \in {"accumulation", "cgp"} => control_data[i].qr_goods # None

\* a continue handler of the operator resolves the token: it writes the payload
\* into the session and waits for the draft to be deleted
TokenResolved(p, token) ==
    \E src \in Sources :
        /\ continue_outcome(Operator, src, token) = "resolved"
        /\ continue_handler(Operator, src, p, token)

\* a continue handler of the operator ends for process p
TokenStartOf(p) ==
    \E i \in DOMAIN calls :
        calls[i].user = Operator /\ calls[i].process = p /\ continue_resume(i)

OwnKeys(p) == StepKeys(p) \cup {CommentKey(k) : k \in StepKeys(p)}

\* an answer is stored: a text or a choice button changes the values in in_progress
AnswerStored ==
    /\ fsm = St_in_progress
    /\ \/ \E text \in FloatTexts : process_step_answer(text)
       \/ \E src \in Sources, val \in CallbackValues : process_choice_answer(src, val)
    /\ data'.values # data.values
    /\ data' # EmptyData

PendingKeys(d) ==
    (IF d.pending_photo_required THEN {d.pending_photo_param_key} ELSE {})
        \cup (IF d.pending_comment_required THEN {d.pending_comment_param_key} ELSE {})

\* the entries of map m under the keys outside K
Outside(m, K) == [k \in DOMAIN m \ K |-> m[k]]

\* C39: cancellation changes no collected data other than that of the pending
\* step.  With no requirement pending, values, photos, step index and pending
\* flags are unchanged; with a requirement pending for step key K, every value
\* and image stored under a key other than K is unchanged.
C39_CancelFrame ==
    [][process_cancel_callback =>
          IF PendingKeys(data) = {}
          THEN /\ data'.values = data.values
               /\ data'.photos = data.photos
               /\ data'.step_index = data.step_index
               /\ data'.pending_photo_required = data.pending_photo_required
               /\ data'.pending_comment_required = data.pending_comment_required
          ELSE /\ Outside(data'.values, PendingKeys(data)) = Outside(data.values, PendingKeys(data))
               /\ Outside(data'.photos, PendingKeys(data)) = Outside(data.photos, PendingKeys(data))]_vars

\* C39 witness: a cancel during a pending photo has taken the answer of that
\* step back and left the answer and the photo of another step in place
C39_Witness ==
    /\ fsm = St_param_menu
    /\ data.last_bot_message_id = PromptMsg
    /\ ~data.pending_photo_required /\ ~data.pending_comment_required
    /\ DOMAIN data.values # {}
    /\ DOMAIN data.photos # {}

\* ------------------------------------------------------------- a button of an older message
\* a button (select step, choice answer, finish, back, new, continue) is pressed
\* on a message other than the last message of the operator's session
StalePress ==
    /\ data.last_bot_message_id # NoMsg
    /\ \/ \E ok \in BOOLEAN : param_menu_done("old", ok)
       \/ \E p \in Stages, key \in AllStepKeys \cup {ForeignKey}, ok \in BOOLEAN :
             param_open_handler("old", p, key, ok)
       \/ \E val \in CallbackValues : process_choice_answer("old", val)
       \/ process_navigation("old")
       \/ \E p \in {"accumulation", "forming", "cgp"} : new_handler("old", p)
       \/ forming_continue_handler("old")
       \/ \E p \in {"accumulation", "cgp"}, token \in 1..MaxTokens :
             continue_handler(Operator, "old", p, token)

\* C40: a button action arriving from a message other than the session's last
\* rendered message is ignored: the FSM state, the values, photos and pending
\* flags, the draft and the token store are left unchanged (and no record is
\* written).
C40_StalePressIgnored ==
    [][StalePress =>
          UNCHANGED <<fsm, data, state_storage, ACCUM_CONTINUE_TOKENS, control_data>>]_vars

\* C40 witness: the session is at a question, with an answer stored, a draft and
\* an unexpired token of the operator in the store, and nothing was answered to
\* the last press: the buttons of the menu, of the message that offered the
\* token and of the earlier questions are all on older messages
C40_Witness ==
    /\ fsm = St_in_progress
    /\ data.last_bot_message_id.kind = "question"
    /\ DOMAIN data.values # {}
    /\ load_found(state_storage, data.process_name)
    /\ 1 \in DOMAIN ACCUM_CONTINUE_TOKENS
    /\ ~Expired(ACCUM_CONTINUE_TOKENS[1], now)
    /\ issued = <<data.process_name>>
    /\ reply = NoReply

====
